---- MODULE Spec2Model ----
(***************************************************************************)
(* A model of the CMSIS debug adapter session (cmsis-debug-session.ts):    *)
(* the set-breakpoints reconciliation, the stop classification of          *)
(* asynchronous *stopped notifications, the log point table and the        *)
(* pending-pause handshake.  The debugger backend (gdb behind mi.ts) is     *)
(* modelled by its breakpoint table and by the replies it gives.           *)
(***************************************************************************)
EXTENDS Integers, Sequences, FiniteSets, TLC

\* ------------------------------------------------------------ bounds
\* Longest desired-breakpoint list of one set-breakpoints request.
MaxDesired == 2
\* Largest backend breakpoint number handed out in one behaviour of Spec.
MaxId == 3
\* Longest hit-condition string (in characters).
MaxHitLen == 3
\* Most breakpoints already installed when a single reconciliation starts.
MaxInstalled == 2
\* Most handles variableHandles hands out in one behaviour.
MaxHandles == 2
\* Most handles frameHandles hands out in one behaviour.
MaxFrameHandles == 2
\* Longest chunk of server output (in characters).
MaxChunkLen == 2
\* Longest content of an output buffer of the server (in characters).
MaxBuffer == 3

\* ------------------------------------------------------------ values
\* JavaScript's undefined, for optional string fields.
Undefined == "<undefined>"

\* A string field is truthy when it is present and not empty.
Truthy(s) == s /= Undefined /\ s /= ""

Digits == {"0", "1", "2", "3", "4", "5", "6", "7", "8", "9"}

DigitVal(c) ==
    CASE c = "0" -> 0 [] c = "1" -> 1 [] c = "2" -> 2 [] c = "3" -> 3
      [] c = "4" -> 4 [] c = "5" -> 5 [] c = "6" -> 6 [] c = "7" -> 7
      [] c = "8" -> 8 [] c = "9" -> 9

\* Strings that are inspected character by character are sequences of
\* one-character strings.
SeqsUpTo(S, n) == UNION {[1..k -> S] : k \in 0..n}

\* ------------------------------------------------------------ hit conditions
\* The white space of JavaScript, which is what \s matches and what parseInt
\* skips: tab, line feed, vertical tab, form feed, carriage return, blank,
\* and the white space beyond ASCII, written here by code point.
WhiteSpace ==
    {"\t", "\n", "U+000B", "\f", "\r", " ", "U+00A0", "U+1680", "U+2000", "U+2001",
     "U+2002", "U+2003", "U+2004", "U+2005", "U+2006", "U+2007", "U+2008",
     "U+2009", "U+200A", "U+2028", "U+2029", "U+202F", "U+205F", "U+3000",
     "U+FEFF"}

\* const ignoreCountRegex = /\s|\>/g; the characters replace() removes.
ignoreCountRegex == WhiteSpace \cup {">"}

RECURSIVE Replace(_, _)
\* hitCondition.replace(ignoreCountRegex, ''): every match is removed.
Replace(s, re) ==
    IF s = <<>> THEN <<>>
    ELSE IF Head(s) \in re THEN Replace(Tail(s), re)
         ELSE <<Head(s)>> \o Replace(Tail(s), re)

\* hitCondition.startsWith('>')
StartsWith(s, c) == Len(s) > 0 /\ s[1] = c

RECURSIVE DigitPrefix(_)
\* The longest prefix of s made of decimal digits.
DigitPrefix(s) ==
    IF s = <<>> \/ Head(s) \notin Digits THEN <<>>
    ELSE <<Head(s)>> \o DigitPrefix(Tail(s))

RECURSIVE DigitsValue(_, _)
DigitsValue(s, acc) ==
    IF s = <<>> THEN acc ELSE DigitsValue(Tail(s), 10 * acc + DigitVal(Head(s)))

\* A JavaScript number that is an integer, and the number that is none.
Number(n) == [nan |-> FALSE, val |-> n]
NaN == [nan |-> TRUE, val |-> 0]

RECURSIVE TrimStart(_)
\* s without its leading white space.
TrimStart(s) ==
    IF s = <<>> \/ Head(s) \notin WhiteSpace THEN s ELSE TrimStart(Tail(s))

\* parseInt(s, 10): leading white space is skipped, one sign is read, and
\* the value is that of the decimal digits that follow, up to the first
\* other character; NaN when no digit follows.  isNaN is the nan field.
ParseInt(s) ==
    LET t == TrimStart(s)
        signed == t /= <<>> /\ Head(t) \in {"-", "+"}
        p == DigitPrefix(IF signed THEN Tail(t) ELSE t)
    IN  IF p = <<>> THEN NaN
        ELSE Number(IF signed /\ Head(t) = "-" THEN 0 - DigitsValue(p, 0)
                    ELSE DigitsValue(p, 0))

\* A loop that never installs a temporary breakpoint.
HitTemporaryNever(vsbp) == FALSE

\* Lines 211-223: the install parameters of one unmatched desired entry.
\* temporary = !hitCondition.startsWith('>'), false without a hit condition.
HitTemporary(vsbp) ==
    IF vsbp.hasHit THEN ~StartsWith(vsbp.hitCondition, ">") ELSE FALSE

\* ignoreCount = parseInt(hitCondition.replace(ignoreCountRegex, ''), 10)
HitIgnoreCount(vsbp) == ParseInt(Replace(vsbp.hitCondition, ignoreCountRegex))

\* isNaN(ignoreCount): the entry is reported and skipped (`continue`).
HitSkipped(vsbp) == vsbp.hasHit /\ HitIgnoreCount(vsbp).nan

\* ------------------------------------------------------------ records
\* A desired breakpoint (DebugProtocol.SourceBreakpoint).
SourceBreakpoint(line, condition, hasHit, hitCondition, logMessage) ==
    [line |-> line, condition |-> condition, hasHit |-> hasHit,
     hitCondition |-> hitCondition, logMessage |-> logMessage]

\* One row of the backend's breakpoint table (mi.MIBreakpointInfo).
MIBreakpointInfo(number, fullname, line, cond, temporary, hasIgnore, ignore) ==
    [number |-> number, fullname |-> fullname, line |-> line, cond |-> cond,
     temporary |-> temporary, hasIgnore |-> hasIgnore, ignore |-> ignore]

\* An entry of the request's trace: a backend command, an output event or
\* the response, in the order the request produced them.
Blank ==
    [t |-> "", name |-> "", file |-> "", line |-> 0, condition |-> Undefined,
     temporary |-> FALSE, hasIgnore |-> FALSE, ignoreCount |-> 0,
     ids |-> <<>>, hit |-> <<>>, code |-> 0, body |-> <<>>]

CmdInterrupt == [Blank EXCEPT !.t = "cmd", !.name = "interrupt"]
CmdBreakList == [Blank EXCEPT !.t = "cmd", !.name = "break-list"]
CmdContinue == [Blank EXCEPT !.t = "cmd", !.name = "exec-continue"]
CmdBreakDelete(ids) ==
    [Blank EXCEPT !.t = "cmd", !.name = "break-delete", !.ids = ids]

\* Lines 225-230: the create-breakpoint command of one desired entry.
CmdBreakInsert(file, vsbp) ==
    [Blank EXCEPT !.t = "cmd", !.name = "break-insert", !.file = file,
                  !.line = vsbp.line, !.condition = vsbp.condition,
                  !.temporary = HitTemporary(vsbp),
                  !.hasIgnore = vsbp.hasHit,
                  !.ignoreCount = IF vsbp.hasHit THEN HitIgnoreCount(vsbp).val ELSE 0]

\* Line 220: OutputEvent(`Unable to decode expression: ${hitCondition}`).
Diagnostic(vsbp) ==
    [Blank EXCEPT !.t = "event", !.name = "output", !.hit = vsbp.hitCondition]

\* Line 246: sendResponse with body.breakpoints = actual.
ResponseOk(actual) ==
    [Blank EXCEPT !.t = "response", !.name = "success", !.body = actual]

\* The command the request waited for has failed: its await throws.
Failed == [Blank EXCEPT !.t = "failed"]

\* Line 248: sendErrorResponse(response, 1, err.message).
ResponseError == [Blank EXCEPT !.t = "response", !.name = "error", !.code = 1]

\* Lines 169-175: createActual.
createActual(gdbbp) ==
    [id |-> gdbbp.number, line |-> gdbbp.line, verified |-> TRUE]

\* ------------------------------------------------------------ log points
\* logPointMessages is a set of [id, msg] with one entry per id at most.
LpSet(lpm, id, msg) == {e \in lpm : e.id /= id} \cup {[id |-> id, msg |-> msg]}

LpGet(lpm, id) ==
    IF \E e \in lpm : e.id = id
    THEN (CHOOSE e \in lpm : e.id = id).msg
    ELSE Undefined

\* ------------------------------------------------------------ reconciliation
\* A comparison that tells '' from undefined.
OrUndefinedStrict(s) == s

\* Lines 193-194: `x || undefined`, so that '' and undefined compare equal.
OrUndefined(s) == IF Truthy(s) THEN s ELSE Undefined

RECURSIVE FindIndex(_, _, _)
\* breakpoints.find(vsbp => vsbp.line === line): the index of the first
\* entry with that line at or after i, 0 when there is none.
FindIndex(breakpoints, line, i) ==
    IF i > Len(breakpoints) THEN 0
    ELSE IF breakpoints[i].line = line THEN i
         ELSE FindIndex(breakpoints, line, i + 1)

\* A filter that also keeps every entry with a hit condition.
KeptWithHit(vsbp, gdbbp) ==
    \/ vsbp.line /= gdbbp.line
    \/ OrUndefined(vsbp.condition) /= OrUndefined(gdbbp.cond)
    \/ vsbp.hasHit

\* Lines 188-197: the filter keeps an entry unless line and condition match.
Kept(vsbp, gdbbp) ==
    \/ vsbp.line /= gdbbp.line
    \/ OrUndefined(vsbp.condition) /= OrUndefined(gdbbp.cond)

RECURSIVE FilterInserts(_, _)
FilterInserts(ins, gdbbp) ==
    IF ins = <<>> THEN <<>>
    ELSE IF Kept(Head(ins), gdbbp)
         THEN <<Head(ins)>> \o FilterInserts(Tail(ins), gdbbp)
         ELSE FilterInserts(Tail(ins), gdbbp)

\* The forEach body without the test of the row's file.
ScanRowAnyFile(acc, gdbbp, file, breakpoints) ==
    LET i == FindIndex(breakpoints, gdbbp.line, 1)
        kept == FilterInserts(acc.inserts, gdbbp)
        k == Len(acc.inserts) - Len(kept)
    IN  [inserts |-> kept,
         deletes |-> IF i = 0 THEN Append(acc.deletes, gdbbp.number)
                     ELSE acc.deletes,
         actual |-> acc.actual \o [j \in 1..k |-> createActual(gdbbp)],
         lpm |-> acc.lpm]

\* Lines 179-207: the body of the forEach for one row of the table.  acc
\* holds inserts, deletes, actual and the log point table.
ScanRow(acc, gdbbp, file, breakpoints) ==
    IF gdbbp.fullname = file /\ gdbbp.line /= 0
    THEN LET i == FindIndex(breakpoints, gdbbp.line, 1)
             kept == FilterInserts(acc.inserts, gdbbp)
             k == Len(acc.inserts) - Len(kept)
         IN  [inserts |-> kept,
              deletes |-> IF i = 0 THEN Append(acc.deletes, gdbbp.number)
                          ELSE acc.deletes,
              actual |-> acc.actual \o [j \in 1..k |-> createActual(gdbbp)],
              lpm |-> IF k > 0 /\ i /= 0 /\ Truthy(breakpoints[i].logMessage)
                      THEN LpSet(acc.lpm, gdbbp.number, breakpoints[i].logMessage)
                      ELSE acc.lpm]
    ELSE acc

RECURSIVE ScanTable(_, _, _, _)
\* Line 178: result.BreakpointTable.body.forEach(...), in table order.
ScanTable(table, acc, file, breakpoints) ==
    IF table = <<>> THEN acc
    ELSE ScanTable(Tail(table), ScanRow(acc, Head(table), file, breakpoints),
                   file, breakpoints)

RECURSIVE SkipCount(_)
\* How many leading entries of the insert list the loop skips with a
\* diagnostic before it reaches one it installs.
SkipCount(ins) ==
    IF ins = <<>> \/ ~HitSkipped(Head(ins)) THEN 0 ELSE 1 + SkipCount(Tail(ins))

\* ------------------------------------------------------------ backend
\* The row the backend adds for a create-breakpoint command.
InstalledRow(number, cmd) ==
    MIBreakpointInfo(number, cmd.file, cmd.line, OrUndefined(cmd.condition),
                     cmd.temporary, cmd.hasIgnore, cmd.ignoreCount)

\* The table after a batch delete of ids.
DeleteRows(table, ids) ==
    SelectSeq(table, LAMBDA r : \A j \in 1..Len(ids) : ids[j] /= r.number)

\* ------------------------------------------------------------ notifications
\* A *stopped notification as handleGDBStopped reads it: reason, bkptno,
\* 'thread-id' (a decimal string), 'stopped-threads' and 'signal-name'.
StopResult(reason, bkptno, threadId, stoppedThreads, signalName) ==
    [reason |-> reason, bkptno |-> bkptno, threadId |-> threadId,
     stoppedThreads |-> stoppedThreads, signalName |-> signalName]

\* Line 257: parseInt(resultData['thread-id'], 10).
getThreadId(result) == ParseInt(result.threadId)

\* Only the first half of the test: !!x.
getAllThreadsStoppedAny(result) == Truthy(result.stoppedThreads)

\* Lines 258-260: !!x && x === 'all'.
getAllThreadsStopped(result) ==
    Truthy(result.stoppedThreads) /\ result.stoppedThreads = "all"

\* Front-end events of the stop classifier.
StoppedEvent(reason, threadId, allThreadsStopped) ==
    [kind |-> "stopped", text |-> reason, threadId |-> threadId,
     allThreadsStopped |-> allThreadsStopped]

NoThread == [nan |-> TRUE, val |-> 0]

TerminatedEvent ==
    [kind |-> "terminated", text |-> "", threadId |-> NoThread,
     allThreadsStopped |-> FALSE]

OutputEvent(text) ==
    [kind |-> "output", text |-> text, threadId |-> NoThread,
     allThreadsStopped |-> FALSE]

NoEffect == [events |-> <<>>, resumes |-> 0, resolves |-> FALSE]

\* A breakpoint-hit that always stops, log message or not.
BreakpointHitStops(result, lpm) ==
    [NoEffect EXCEPT !.events = <<StoppedEvent("breakpoint", getThreadId(result),
                                               getAllThreadsStopped(result))>>]

\* Lines 267-274: a breakpoint-hit whose number has a log message emits the
\* message and resumes; any other emits a stop event.
BreakpointHit(result, lpm) ==
    IF Truthy(LpGet(lpm, result.bkptno))
    THEN [NoEffect EXCEPT !.events = <<OutputEvent(LpGet(lpm, result.bkptno))>>,
                          !.resumes = 1]
    ELSE [NoEffect EXCEPT !.events = <<StoppedEvent("breakpoint", getThreadId(result),
                                                    getAllThreadsStopped(result))>>]

\* Lines 262-288: what one notification makes the session emit, whether it
\* issues a resume (mi.sendExecContinue) and whether it calls waitPaused.
Classify(result, lpm, waiting) ==
    LET tid == getThreadId(result)
        all == getAllThreadsStopped(result)
    IN  CASE result.reason \in {"exited", "exited-normally"} ->
               [NoEffect EXCEPT !.events = <<TerminatedEvent>>]
          [] result.reason = "breakpoint-hit" -> BreakpointHit(result, lpm)
          [] result.reason \in {"end-stepping-range", "function-finished"} ->
               [NoEffect EXCEPT !.events = <<StoppedEvent("step", tid, all)>>]
          [] result.reason = "signal-received" ->
               [NoEffect EXCEPT !.events =
                                   <<StoppedEvent(IF Truthy(result.signalName)
                                                  THEN result.signalName ELSE "signal",
                                                  tid, all)>>,
                                !.resolves = waiting]
          [] OTHER ->
               [NoEffect EXCEPT !.events = <<StoppedEvent("generic", tid, all)>>]

\* ------------------------------------------------------------ handles
\* Lines 47-49: the reserved variable references.
GLOBAL_HANDLE_ID == 254
STATIC_HANDLES_START == 65536
STATIC_HANDLES_FINISH == 131071

\* The first handle of a handle table (Handles of vscode-debugadapter, which
\* GDBDebugSession uses for frameHandles and variableHandles).
START_HANDLE == 1000

\* What a handle table maps to: a frame of a thread (frameHandles), or a
\* frame or object reference (variableHandles).  The type "none" stands for
\* undefined.
Reference(type, frameHandle, varobjName, threadId, frameId) ==
    [type |-> type, frameHandle |-> frameHandle, varobjName |-> varobjName,
     threadId |-> threadId, frameId |-> frameId]

NoReference == Reference("none", 0, "", 0, 0)

\* Lines 111-114: { threadId: -1, frameId: -1 }.
\* A pseudo frame with the ids of the innermost frame of thread 1.
PseudoFrameOfThread == Reference("stack", 0, "", 1, 0)

PseudoFrame == Reference("stack", 0, "", -1, -1)

StackFrame(threadId, frameId) == Reference("stack", 0, "", threadId, frameId)

\* Lines 124-127: { type: 'frame', frameHandle: args.frameId }.
FrameVariableReference(frameId) == Reference("frame", frameId, "", 0, 0)

\* Lines 490-494: { frameHandle: this.globalHandle, type: 'object', varobjName }.
ObjectVariableReference(frameHandle, varobjName) ==
    Reference("object", frameHandle, varobjName, 0, 0)

\* A handle table that has handed out the handles START_HANDLE..next-1.  The
\* handles below `earlier` were handed out before the behaviour starts and
\* all hold the value `was`; map holds the later ones.
Handles(earlier, was) ==
    [next |-> earlier, earlier |-> earlier, was |-> was, map |-> <<>>]

\* Handles.create: the value is stored under the next handle, which is
\* returned (HandlesNext) and incremented.
HandlesNext(h) == h.next

\* A table that hands out its last handle again.
HandlesCreateReusing(h, value) ==
    [h EXCEPT !.map = (h.next :> value) @@ h.map]

HandlesCreate(h, value) ==
    [h EXCEPT !.next = h.next + 1, !.map = (h.next :> value) @@ h.map]

\* Handles.get: undefined for a handle never handed out.
HandlesGet(h, handle) ==
    IF handle \in DOMAIN h.map THEN h.map[handle]
    ELSE IF START_HANDLE <= handle /\ handle < h.earlier THEN h.was
    ELSE NoReference

RECURSIVE NumberToString(_)
\* String(n) for a natural number: its decimal digits.
NumberToString(n) ==
    LET d == CHOOSE c \in Digits : DigitVal(c) = n % 10
    IN  IF n < 10 THEN <<d>> ELSE Append(NumberToString(n \div 10), d)

\* ------------------------------------------------------------ state
VARIABLES
    isRunning,          \* the session's view of the target (GDBDebugSession)
    waitPaused,         \* whose resolver this.waitPaused holds, "none" at first
    logPointMessages,   \* this.logPointMessages
    installed,          \* the backend's breakpoint table, by number
    nextId,             \* the number the backend gives its next breakpoint
    contPending,        \* a resume was issued and the target has not reported running
    contPromise,        \* the promise of the exec-continue issued without await:
                        \* "none", "pending", "rejected" (taken by no handler,
                        \* the adapter goes on), "fatal" (the same, and the
                        \* run time has ended the adapter)
    pc,                 \* where setBreakPointsRequest is suspended
    args,               \* its arguments: source.path and breakpoints
    neededPause,        \* its local neededPause
    pauseResolved,      \* its waitPromise has been resolved
    inserts,            \* its local inserts (the entries still to install)
    deletes,            \* its local deletes
    actual,             \* its local actual
    result,             \* its local result: the table break-list returned
    hadLog,             \* the numbers a log message was ever registered for
    log,                \* what the request has issued and sent, in order
    lastStop            \* the last step, when it was a stop notification

VARIABLES
    variableHandles,    \* this.variableHandles (a handle table)
    frameHandles,       \* this.frameHandles (a handle table)
    globalHandle,       \* this.globalHandle, 0 while undefined
    variableMap,        \* the tracked variables varManager holds
    varobjs,            \* the tracked variables the backend holds, by cache key
    vreq,               \* the variables request in progress
    vlog                \* what the last request of this group issued and sent

VARIABLES
    process,            \* this.process: "none", "spawning" (still undefined),
                        \* "running", "exited" (defined, the process is gone),
                        \* "unspawned" (defined, no process was started and
                        \* its 'error' is to come), "failed" (the same after
                        \* that 'error')
    outBuffer,          \* this.outBuffer
    errBuffer,          \* this.errBuffer
    launchResolve,      \* this.launchResolve is defined
    launchReject,       \* this.launchReject is defined
    timer,              \* this.timer: "none", "armed", "fired" (defined, expired)
    future,             \* the promise spawn() returned
    slog                \* what the last call of the supervisor did

VARIABLES
    lpc,                \* where launchRequest / runSession is suspended
    llog,               \* what it has sent to the front end and to the backend
    heard               \* what the session's listeners sent to the front end
                        \* during the last call of the supervisor

VARIABLES
    tpc,                \* where stopSession is suspended
    stopResolved,       \* its waitPromise has been resolved
    gdbAlive,           \* (this.gdb as CmsisBackend).isRunning
    tlog                \* what it has issued, in order

session == <<isRunning, waitPaused, logPointMessages>>
backend == <<installed, nextId, contPending, contPromise>>
frame == <<pc, args, neededPause, pauseResolved, inserts, deletes, actual, result>>
inspection == <<variableHandles, frameHandles, globalHandle, variableMap, varobjs,
                vreq, vlog>>
server == <<process, outBuffer, errBuffer, launchResolve, launchReject, timer,
            future, slog>>
launch == <<lpc, llog, heard>>
teardown == <<tpc, stopResolved, gdbAlive, tlog>>
others == <<inspection, server, launch>>
vars == <<session, backend, frame, log, lastStop, hadLog, others, teardown>>

NoArgs == [file |-> "", breakpoints |-> <<>>]
NoStop == [fired |-> FALSE,
           result |-> StopResult("", 0, <<>>, Undefined, Undefined),
           events |-> <<>>, resumes |-> 0, resolved |-> FALSE]

\* No variables request yet: both handle tables are new.
VRequest(at, kind, servedFrame, frameRef, file, depth, symbols) ==
    [pc |-> at, kind |-> kind, servedFrame |-> servedFrame, frame |-> frameRef,
     file |-> file, depth |-> depth, symbols |-> symbols, name |-> <<>>,
     expression |-> "", variables |-> <<>>]

NoVRequest == VRequest("idle", "", 0, NoReference, <<>>, Number(0), <<>>)

InitVariables(earlier) ==
    /\ variableHandles = Handles(earlier, FrameVariableReference(START_HANDLE))
    /\ frameHandles = Handles(START_HANDLE, NoReference)
    /\ globalHandle = 0
    /\ variableMap = {}
    /\ varobjs = {}
    /\ vreq = NoVRequest
    /\ vlog = <<>>

\* The promise spawn() returns: its state, how often resolve or reject was
\* called on it, and the error it was rejected with.
NoFuture == [state |-> "none", settled |-> 0, error |-> ""]

\* What one call of a method or callback of the supervisor did: the events
\* it emitted, the signals it sent to the process, what it did to the
\* promise, and whether it ended by an exception.
Did(op, emitted, signals, settles, raised) ==
    [op |-> op, emitted |-> emitted, signals |-> signals, settles |-> settles,
     raised |-> raised]

Nothing == Did("", <<>>, <<>>, "", FALSE)

InitServer ==
    /\ process = "none"
    /\ outBuffer = <<>>
    /\ errBuffer = <<>>
    /\ launchResolve = FALSE
    /\ launchReject = FALSE
    /\ timer = "none"
    /\ future = NoFuture
    /\ slog = Nothing

InitLaunch ==
    /\ lpc = "idle"
    /\ llog = <<>>
    /\ heard = <<>>

InitTeardown(alive) ==
    /\ tpc = "idle"
    /\ stopResolved = FALSE
    /\ gdbAlive = alive
    /\ tlog = <<>>

\* The session after construction, its backend holding the breakpoints of
\* table.
InitSession(table) ==
    /\ isRunning = FALSE
    /\ waitPaused = "none"
    /\ logPointMessages = {}
    /\ installed = table
    /\ nextId = Len(table) + 1
    /\ contPending = FALSE
    /\ contPromise = "none"
    /\ pc = "idle"
    /\ args = NoArgs
    /\ neededPause = FALSE
    /\ pauseResolved = FALSE
    /\ inserts = <<>>
    /\ deletes = <<>>
    /\ actual = <<>>
    /\ result = <<>>
    /\ hadLog = {}
    /\ log = <<>>
    /\ lastStop = NoStop

InitWith(table) ==
    /\ InitSession(table)
    /\ InitVariables(START_HANDLE)
    /\ InitServer
    /\ InitLaunch
    /\ InitTeardown(TRUE)

sessionVars == <<session, backend, frame, log, lastStop, hadLog>>

\* ------------------------------------------------------------ setBreakPointsRequest
\* The owed resume issued on the success path only.
FinishResumeInTry(log1) ==
    LET owed == neededPause /\ log1[Len(log1)].name = "success"
    IN  /\ log' = IF owed THEN Append(log1, CmdContinue) ELSE log1
        /\ contPending' = (contPending \/ owed)
        /\ contPromise' = IF owed THEN "pending" ELSE contPromise
        /\ pc' = "idle"

\* Lines 251-253, after the try/catch: the owed resume is issued and not
\* awaited, so its promise is left to itself; the request is over.
Finish(log1) ==
    /\ log' = IF neededPause THEN Append(log1, CmdContinue) ELSE log1
    /\ contPending' = (contPending \/ neededPause)
    /\ contPromise' = IF neededPause THEN "pending" ELSE contPromise
    /\ pc' = "idle"

\* The batch delete issued whether or not a row is marked.
RunInsertsDeleting(ins, act, lpm, del, log1) ==
    LET n == SkipCount(ins)
        rest == SubSeq(ins, n + 1, Len(ins))
        log2 == log1 \o [j \in 1..n |-> Diagnostic(ins[j])]
    IN  /\ inserts' = rest
        /\ actual' = act
        /\ logPointMessages' = lpm
        /\ hadLog' = hadLog \cup {e.id : e \in lpm}
        /\ deletes' = del
        /\ IF rest /= <<>>
           THEN /\ log' = Append(log2, CmdBreakInsert(args.file, Head(rest)))
                /\ pc' = "insert"
                /\ UNCHANGED <<contPending, contPromise>>
           ELSE IF Len(del) >= 0
                THEN /\ log' = Append(log2, CmdBreakDelete(del))
                     /\ pc' = "delete"
                     /\ UNCHANGED <<contPending, contPromise>>
                ELSE Finish(Append(log2, ResponseOk(act)))

\* Lines 210-246 from the head of the insert list ins: skipped entries are
\* reported, the next entry's create command is issued and awaited; after
\* the last entry the batch delete is issued, or the response is sent.
RunInserts(ins, act, lpm, del, log1) ==
    LET n == SkipCount(ins)
        rest == SubSeq(ins, n + 1, Len(ins))
        log2 == log1 \o [j \in 1..n |-> Diagnostic(ins[j])]
    IN  /\ inserts' = rest
        /\ actual' = act
        /\ logPointMessages' = lpm
        /\ hadLog' = hadLog \cup {e.id : e \in lpm}
        /\ deletes' = del
        /\ IF rest /= <<>>
           THEN /\ log' = Append(log2, CmdBreakInsert(args.file, Head(rest)))
                /\ pc' = "insert"
                /\ UNCHANGED <<contPending, contPromise>>
           ELSE IF Len(del) > 0
                THEN /\ log' = Append(log2, CmdBreakDelete(del))
                     /\ pc' = "delete"
                     /\ UNCHANGED <<contPending, contPromise>>
                ELSE Finish(Append(log2, ResponseOk(act)))

\* A request that keeps the log points of earlier requests.
KeepLogPoints == logPointMessages

\* Lines 155-156: this.logPointMessages = {}.
ResetLogPoints == {}

\* Lines 143-157: the request arrives.  On a running target the resolver is
\* stored, the interrupt is issued and the request waits; otherwise the
\* log point table is reset and break-list is issued.
SetBreakPointsRequest(file, breakpoints) ==
    /\ UNCHANGED <<others, teardown>>
    /\ pc = "idle"
    /\ args' = [file |-> file, breakpoints |-> breakpoints]
    /\ neededPause' = isRunning
    /\ pauseResolved' = FALSE
    /\ inserts' = breakpoints
    /\ deletes' = <<>>
    /\ actual' = <<>>
    /\ result' = <<>>
    /\ IF isRunning
       THEN /\ waitPaused' = "setBreakpoints"
            /\ log' = <<CmdInterrupt>>
            /\ pc' = "waitPaused"
            /\ UNCHANGED logPointMessages
       ELSE /\ logPointMessages' = ResetLogPoints
            /\ log' = <<CmdBreakList>>
            /\ pc' = "breakList"
            /\ UNCHANGED waitPaused
    /\ lastStop' = NoStop
    /\ UNCHANGED <<isRunning, backend, hadLog>>

\* A request that goes on without waiting for the stop.
AwaitPausedEarly ==
    /\ UNCHANGED <<others, teardown>>
    /\ pc = "waitPaused"
    /\ logPointMessages' = ResetLogPoints
    /\ log' = Append(log, CmdBreakList)
    /\ pc' = "breakList"
    /\ lastStop' = NoStop
    /\ UNCHANGED <<isRunning, waitPaused, backend, args, neededPause,
                   pauseResolved, inserts, deletes, actual, result, hadLog>>

\* Lines 152-157: waitPromise is resolved and the request goes on.
AwaitPaused ==
    /\ UNCHANGED <<others, teardown>>
    /\ pc = "waitPaused"
    /\ pauseResolved
    /\ logPointMessages' = ResetLogPoints
    /\ log' = Append(log, CmdBreakList)
    /\ pc' = "breakList"
    /\ lastStop' = NoStop
    /\ UNCHANGED <<isRunning, waitPaused, backend, args, neededPause,
                   pauseResolved, inserts, deletes, actual, result, hadLog>>

\* Lines 177-208 and on: the reply to break-list.
BreakListReply(ok) ==
    /\ UNCHANGED <<others, teardown>>
    /\ pc = "breakList"
    /\ IF ok
       THEN LET r == ScanTable(installed,
                              [inserts |-> inserts, deletes |-> <<>>,
                               actual |-> <<>>, lpm |-> logPointMessages],
                              args.file, args.breakpoints)
            IN  /\ result' = installed
                /\ RunInserts(r.inserts, r.actual, r.lpm, r.deletes, log)
       ELSE /\ Finish(log \o <<Failed, ResponseError>>)
            /\ UNCHANGED <<logPointMessages, inserts, deletes, actual, result,
                           hadLog>>
    /\ lastStop' = NoStop
    /\ UNCHANGED <<isRunning, waitPaused, installed, nextId, args,
                   neededPause, pauseResolved>>

\* A create-breakpoint command whose failure skips the entry.
BreakInsertReplySkipping(ok) ==
    /\ UNCHANGED <<others, teardown>>
    /\ pc = "insert"
    /\ IF ok
       THEN LET vsbp == Head(inserts)
                bkpt == InstalledRow(nextId, CmdBreakInsert(args.file, vsbp))
            IN  /\ installed' = Append(installed, bkpt)
                /\ nextId' = nextId + 1
                /\ RunInserts(Tail(inserts), Append(actual, createActual(bkpt)),
                              IF Truthy(vsbp.logMessage)
                              THEN LpSet(logPointMessages, bkpt.number, vsbp.logMessage)
                              ELSE logPointMessages,
                              deletes, log)
       ELSE /\ RunInserts(Tail(inserts), actual, logPointMessages, deletes,
                            Append(log, Failed))
            /\ UNCHANGED <<installed, nextId>>
    /\ lastStop' = NoStop
    /\ UNCHANGED <<isRunning, waitPaused, args, neededPause, pauseResolved,
                   result>>

\* Lines 225-236: the reply to a create-breakpoint command.
BreakInsertReply(ok) ==
    /\ UNCHANGED <<others, teardown>>
    /\ pc = "insert"
    /\ IF ok
       THEN LET vsbp == Head(inserts)
                bkpt == InstalledRow(nextId, CmdBreakInsert(args.file, vsbp))
            IN  /\ installed' = Append(installed, bkpt)
                /\ nextId' = nextId + 1
                /\ RunInserts(Tail(inserts), Append(actual, createActual(bkpt)),
                              IF Truthy(vsbp.logMessage)
                              THEN LpSet(logPointMessages, bkpt.number, vsbp.logMessage)
                              ELSE logPointMessages,
                              deletes, log)
       ELSE /\ Finish(log \o <<Failed, ResponseError>>)
            /\ UNCHANGED <<logPointMessages, installed, nextId, inserts,
                           deletes, actual, hadLog>>
    /\ lastStop' = NoStop
    /\ UNCHANGED <<isRunning, waitPaused, args, neededPause, pauseResolved,
                   result>>

\* Lines 242-246: the reply to the batch delete.
BreakDeleteReply(ok) ==
    /\ UNCHANGED <<others, teardown>>
    /\ pc = "delete"
    /\ IF ok
       THEN /\ installed' = DeleteRows(installed, deletes)
            /\ Finish(Append(log, ResponseOk(actual)))
       ELSE /\ Finish(log \o <<Failed, ResponseError>>)
            /\ UNCHANGED installed
    /\ lastStop' = NoStop
    /\ UNCHANGED <<isRunning, waitPaused, logPointMessages, nextId, args,
                   neededPause, pauseResolved, inserts, deletes, actual,
                   result, hadLog>>

\* ------------------------------------------------------------ single-command requests
\* An entry of the trace of stack-trace, scopes and variables requests.
VBlank ==
    [t |-> "", name |-> "", varname |-> <<>>, expression |-> "", frame |-> "",
     threadId |-> 0, frameId |-> 0, code |-> 0, scopes |-> <<>>,
     variables |-> <<>>, served |-> "", servedFrame |-> 0, reference |-> 0]

\* A request of the front end: stackTrace, scopes (of the frame reference)
\* or variables (of the variables reference).
Request(name, reference) ==
    [VBlank EXCEPT !.t = "request", !.name = name, !.reference = reference]

\* The command the request waited for has failed: its await throws.
VFailed == [VBlank EXCEPT !.t = "failed"]

\* mi.sendExecContinue(this.gdb)
CmdExecContinue == [VBlank EXCEPT !.t = "cmd", !.name = "exec-continue"]

\* mi.sendExecInterrupt(this.gdb, args.threadId)
CmdExecInterrupt(threadId) ==
    [VBlank EXCEPT !.t = "cmd", !.name = "exec-interrupt", !.threadId = threadId]

\* mi.sendUserInput(this.gdb, command)
CmdUserInput(command) ==
    [VBlank EXCEPT !.t = "cmd", !.name = "user-input", !.expression = command]

\* Lines 94, 103 and 333: sendResponse(response), with the result of an
\* evaluation.
SimpleResponse(name, evaluated) ==
    [VBlank EXCEPT !.t = "response", !.name = name, !.expression = evaluated]

\* An error response of code 1 whatever the request.
ErrorCodeOne(name) == 1

\* Lines 96, 105 and 338: the code of the error response of a request.
ErrorCode(name) == IF name = "configurationDone" THEN 100 ELSE 1

\* Lines 96, 105 and 338: sendErrorResponse(response, code, err.message).
SimpleError(name) ==
    [VBlank EXCEPT !.t = "response", !.name = "error", !.code = ErrorCode(name),
                   !.served = name]

\* Lines 91-93, 100-102 and 320-324: a request that sends one command and
\* waits for it.  A resume is in flight from the moment it is sent.
SimpleRequest(name, reference, command) ==
    /\ vreq.pc = "idle"
    /\ vreq' = [NoVRequest EXCEPT !.pc = name, !.kind = name]
    /\ vlog' = <<Request(name, reference), command>>
    /\ contPending' = (contPending \/ name = "configurationDone")
    /\ UNCHANGED contPromise
    /\ UNCHANGED <<variableHandles, frameHandles, globalHandle, variableMap, varobjs>>
    /\ UNCHANGED <<session, installed, nextId, frame, log, lastStop, hadLog, server,
                   launch, teardown>>

\* Lines 91-93: configurationDone sends exec-continue.
ConfigurationDone == SimpleRequest("configurationDone", 0, CmdExecContinue)

\* Lines 100-102: pause sends exec-interrupt for the thread.
PauseRequest(threadId) ==
    SimpleRequest("pause", threadId, CmdExecInterrupt(threadId))

\* Lines 320-324: evaluate in the repl context sends the expression as
\* user input.
EvaluateRequest(expression) ==
    SimpleRequest("evaluate", 0, CmdUserInput(expression))

\* Lines 325-335: '' for undefined, else JSON.stringify(output): the
\* output between double quotes.  The outputs of the model hold no
\* character that JSON escapes.
EvaluateResult(output) ==
    IF output = Undefined THEN "" ELSE "\"" \o output \o "\""

\* Lines 93-97, 102-106 and 324-339: the command of the request ends; the
\* response is sent, or the error response with the code of the request.
\* A resume that was refused is in flight no more.
SimpleReply(ok, output) ==
    /\ vreq.pc \in {"configurationDone", "pause", "evaluate"}
    /\ vreq' = NoVRequest
    /\ vlog' = IF ok
               THEN Append(vlog, SimpleResponse(vreq.pc,
                                     IF vreq.pc = "evaluate"
                                     THEN EvaluateResult(output) ELSE ""))
               ELSE vlog \o <<VFailed, SimpleError(vreq.pc)>>
    /\ contPending' = IF vreq.pc = "configurationDone" /\ ~ok
                       THEN contPromise = "pending" ELSE contPending
    /\ UNCHANGED contPromise
    /\ lastStop' = NoStop
    /\ UNCHANGED <<variableHandles, frameHandles, globalHandle, variableMap, varobjs>>
    /\ UNCHANGED <<session, installed, nextId, frame, log, hadLog, server, launch,
                   teardown>>

\* ------------------------------------------------------------ target
\* Lines 91-93: a configurationDone request on a halted target that no
\* resume is in flight for.
ConfigurationDoneRequest ==
    /\ ~isRunning
    /\ ~contPending
    /\ ConfigurationDone

\* Lines 93-97: the exec-continue of configurationDone is answered; the
\* response is sent, or the error response of code 100.
ConfigurationDoneReply(ok) ==
    /\ vreq.pc = "configurationDone"
    /\ SimpleReply(ok, Undefined)

\* Line 362: the backend reports the target running.
GDBRunning ==
    /\ UNCHANGED <<others, teardown>>
    /\ contPending
    /\ contPending' = FALSE
    /\ contPromise' = IF contPromise = "pending" THEN "none" ELSE contPromise
    /\ isRunning' = TRUE
    /\ lastStop' = NoStop
    /\ UNCHANGED <<waitPaused, logPointMessages, installed, nextId, frame, log,
                   hadLog>>

\* Lines 251-253 and 270: the backend refuses an exec-continue that was
\* issued without await.  The promise of the command is rejected and no
\* handler takes the rejection: nothing is sent to the front end for it,
\* and the target stays halted.  What becomes of the adapter is decided by
\* the run time, not by its code: the rejection is reported and the adapter
\* goes on, or the adapter is ended (ends).
ContinueRejected(ends) ==
    /\ UNCHANGED <<others, teardown>>
    /\ contPromise = "pending"
    /\ contPromise' = IF ends THEN "fatal" ELSE "rejected"
    /\ contPending' = (vreq.pc = "configurationDone")
    /\ lastStop' = NoStop
    /\ UNCHANGED <<session, installed, nextId, frame, log, hadLog>>

\* The adapter has not been ended: it takes requests, answers and
\* notifications.
Serving == contPromise /= "fatal"

\* Lines 256-289 behind line 362: the backend reports a stop.
GDBStopped(resultData) ==
    /\ UNCHANGED <<others, tpc, gdbAlive, tlog>>
    /\ isRunning
    /\ LET c == Classify(resultData, logPointMessages, waitPaused /= "none")
       IN  /\ isRunning' = FALSE
           /\ contPending' = (contPending \/ c.resumes > 0)
           /\ contPromise' = IF c.resumes > 0 THEN "pending" ELSE contPromise
           /\ pauseResolved' =
                  (pauseResolved \/
                   (c.resolves /\ waitPaused = "setBreakpoints" /\ pc = "waitPaused"))
           /\ stopResolved' =
                  (stopResolved \/
                   (c.resolves /\ waitPaused = "stopSession" /\ tpc = "waitPaused"))
           /\ lastStop' = [fired |-> TRUE, result |-> resultData, events |-> c.events,
                           resumes |-> c.resumes, resolved |-> c.resolves]
    /\ UNCHANGED <<waitPaused, logPointMessages, installed, nextId, pc, args,
                   neededPause, inserts, deletes, actual, result, log, hadLog>>

\* ------------------------------------------------------------ the session
Files == {"a.c", "b.c"}

\* The desired entries of the session specification: plain breakpoints and
\* log points.
SessionEntries ==
    {SourceBreakpoint(l, Undefined, FALSE, <<>>, m) :
        l \in {10}, m \in {Undefined, "hit"}}

StopReasons ==
    {"exited", "exited-normally", "breakpoint-hit", "end-stepping-range",
     "function-finished", "signal-received", "watchpoint-trigger"}

\* The notifications the backend can send in the current state: a
\* breakpoint-hit names an installed breakpoint, a signal may carry a name.
StopResultsOf(threads, stopped, names) ==
    {StopResult(r, 0, t, st, Undefined) :
        r \in StopReasons \ {"breakpoint-hit", "signal-received"},
        t \in threads, st \in stopped}
    \cup
    {StopResult("breakpoint-hit", installed[i].number, t, st, Undefined) :
        i \in 1..Len(installed), t \in threads, st \in stopped}
    \cup
    {StopResult("signal-received", 0, t, st, sn) :
        t \in threads, st \in stopped, sn \in names}

SessionStops == StopResultsOf({<<"1">>}, {"all"}, {Undefined, "SIGINT"})

Init == InitWith(<<>>)

\* Set-breakpoints requests on a target that the one configurationDone
\* request of a session resumes, that runs and stops, every backend command
\* succeeding or failing.  A set-breakpoints request arrives when the
\* configurationDone request has been answered.
Next ==
    \/ \E file \in Files, breakpoints \in SeqsUpTo(SessionEntries, MaxDesired) :
          /\ nextId + Len(breakpoints) - 1 <= MaxId
          /\ vreq.pc = "idle"
          /\ SetBreakPointsRequest(file, breakpoints)
    \/ AwaitPaused
    \/ \E ok \in BOOLEAN : BreakListReply(ok)
    \/ \E ok \in BOOLEAN : BreakInsertReply(ok)
    \/ \E ok \in BOOLEAN : BreakDeleteReply(ok)
    \/ vlog = <<>> /\ ConfigurationDoneRequest
    \/ \E ok \in BOOLEAN : ConfigurationDoneReply(ok)
    \/ GDBRunning
    \/ \E resultData \in SessionStops : GDBStopped(resultData)

Spec == Init /\ [][Next]_vars

\* ------------------------------------------------------------ one reconciliation
\* The specifications below run a single reconciliation, every backend
\* command succeeding, from a breakpoint table drawn from a bounded set.

\* Tables of at most MaxInstalled rows, numbered 1.. in table order.
TablesOf(files, lines, conds) ==
    {[i \in 1..Len(t) |->
         MIBreakpointInfo(i, t[i][1], t[i][2], t[i][3], FALSE, FALSE, 0)] :
       t \in SeqsUpTo(files \X lines \X conds, MaxInstalled)}

Reconcile(files, entries) ==
    \/ \E file \in files, breakpoints \in entries :
          /\ log = <<>>
          /\ SetBreakPointsRequest(file, breakpoints)
    \/ BreakListReply(TRUE)
    \/ BreakInsertReply(TRUE)
    \/ BreakDeleteReply(TRUE)

\* Breakpoints without conditions, on three lines of two files.
Lines == {10, 15, 20}

PlainEntries == {SourceBreakpoint(l, Undefined, FALSE, <<>>, Undefined) : l \in Lines}

InitLines == \E table \in TablesOf(Files, Lines, {Undefined}) : InitWith(table)

NextLines == Reconcile(Files, SeqsUpTo(PlainEntries, MaxDesired))

SpecLines == InitLines /\ [][NextLines]_vars

\* Breakpoints with and without conditions, on two lines of one file.
CondEntries ==
    {SourceBreakpoint(l, c, FALSE, <<>>, Undefined) :
        l \in {10, 20}, c \in {Undefined, "", "x > 0"}}

InitCond ==
    \E table \in TablesOf({"a.c"}, {10, 20}, {Undefined, "", "x > 0"}) :
        InitWith(table)

NextCond == Reconcile({"a.c"}, SeqsUpTo(CondEntries, MaxDesired))

SpecCond == InitCond /\ [][NextCond]_vars

\* Hit conditions: one entry on line 10 with any hit-condition string, alone
\* or next to an entry on line 20 that has none or has "abc".
HitAlphabet == {"1", "3", ">", " ", "a"}

\* Signs and white space other than the blank, in short strings.
HitSigned == {"3", ">", "-", "+", "\t", "\n"}

HitStrings ==
    SeqsUpTo(HitAlphabet, MaxHitLen) \cup {<<"a", "b", "c">>, <<">", " ", "3">>}
        \cup SeqsUpTo(HitSigned, 2)
        \cup {<<"3", "\t", "4">>, <<">", "\t", "3">>, <<">", "-", "1">>,
              <<"U+00A0", "3">>, <<"\r", "3">>}

HitProbes ==
    {SourceBreakpoint(10, Undefined, TRUE, h, Undefined) : h \in HitStrings}
    \cup {SourceBreakpoint(10, Undefined, FALSE, <<>>, Undefined)}

HitCompanions ==
    {SourceBreakpoint(20, Undefined, FALSE, <<>>, Undefined),
     SourceBreakpoint(20, Undefined, TRUE, <<"a", "b", "c">>, Undefined)}

HitRequests ==
    {<<p>> : p \in HitProbes}
    \cup {<<p, c>> : p \in HitProbes, c \in HitCompanions}
    \cup {<<c, p>> : p \in HitProbes, c \in HitCompanions}

InitHit == \E table \in TablesOf({"a.c"}, {10, 20}, {Undefined}) : InitWith(table)

NextHit == Reconcile({"a.c"}, HitRequests)

SpecHit == InitHit /\ [][NextHit]_vars

\* Stop classification: one reconciliation of at most one entry, then the
\* target runs and stops with every kind of notification.
StopThreads == {<<"1">>, <<"2">>, <<"1", "2">>}

AllStops == StopResultsOf(StopThreads, {"all", "1", Undefined}, {Undefined, "", "SIGINT"})

InitStop == \E table \in TablesOf({"a.c"}, {10, 20}, {Undefined}) : InitWith(table)

NextStop ==
    \/ Reconcile({"a.c"}, SeqsUpTo(SessionEntries, 1))
    \/ AwaitPaused
    \/ ConfigurationDoneRequest
    \/ \E ok \in BOOLEAN : ConfigurationDoneReply(ok)
    \/ GDBRunning
    \/ \E resultData \in AllStops : GDBStopped(resultData)

SpecStop == InitStop /\ [][NextStop]_vars

\* ------------------------------------------------------------ variable inspection
\* Lines 308 and 311: the base session is asked for the variables of a
\* frame (handleVariableRequestFrame) or the children of an object
\* (handleVariableRequestObject), and the request waits for it.
LibraryCall(ref) ==
    [VBlank EXCEPT !.t = "library",
                   !.name = IF ref.type = "frame" THEN "handleVariableRequestFrame"
                            ELSE "handleVariableRequestObject",
                   !.served = ref.type,
                   !.servedFrame = ref.frameHandle,
                   !.varname = IF ref.type = "object" THEN ref.varobjName ELSE <<>>]

\* What the base session may return: no variable, or one.
LibraryVariables ==
    {<<>>, <<[name |-> "i", value |-> "1", type |-> "int", variablesReference |-> 0]>>}

\* mi.sendVarCreate(this.gdb, { name, frame: 'current', expression })
CmdVarCreate(name, expression) ==
    [VBlank EXCEPT !.t = "cmd", !.name = "var-create", !.varname = name,
                   !.frame = "current", !.expression = expression]

\* mi.sendVarUpdate(this.gdb, { name })
CmdVarUpdate(name) ==
    [VBlank EXCEPT !.t = "cmd", !.name = "var-update", !.varname = name]

\* mi.sendStackInfoFrame(this.gdb, frame.threadId, frame.frameId)
CmdStackInfoFrame(threadId, frameId) ==
    [VBlank EXCEPT !.t = "cmd", !.name = "stack-info-frame",
                   !.threadId = threadId, !.frameId = frameId]

\* mi.sendStackInfoDepth(this.gdb, { maxDepth: 100 })
CmdStackInfoDepth == [VBlank EXCEPT !.t = "cmd", !.name = "stack-info-depth"]

\* new Scope(name, reference, false)
Scope(name, reference) == [name |-> name, variablesReference |-> reference]

ScopesResponse(scopes) ==
    [VBlank EXCEPT !.t = "response", !.name = "scopes", !.scopes = scopes]

StackTraceResponse(frameIds) ==
    [VBlank EXCEPT !.t = "response", !.name = "stackTrace", !.scopes = frameIds]

\* The response of a variables request, with the scope that served it.
VariablesResponse(served, servedFrame, found) ==
    [VBlank EXCEPT !.t = "response", !.name = "variables", !.served = served,
                   !.servedFrame = servedFrame, !.variables = found]

\* this.sendErrorResponse(response, 1, err.message)
VariablesError(served, servedFrame) ==
    [VBlank EXCEPT !.t = "response", !.name = "error", !.code = 1,
                   !.served = served, !.servedFrame = servedFrame]

\* The symbols of the program (SymbolTable): the global variables and the
\* static variables of each file.
GlobalSymbols == <<"count", "buf">>

\* The names of two source files, character by character.
SourceA == <<"a", ".", "c">>
SourceB == <<"b", ".", "c">>

StaticSymbols(file) == IF file \in {SourceA, SourceB} THEN <<"count">> ELSE <<>>

\* Lines 436 and 456: `global_var_${symbol.name}` and
\* `${file}_static_var_${symbol.name}`, as the list of their parts.
GlobalName(symbol) == <<"global_var_", symbol>>

\* A static name without the file.
StaticNameBare(file, symbol) == <<"_static_var_", symbol>>

StaticName(file, symbol) == <<file, "_static_var_", symbol>>

VarName(kind, file, symbol) ==
    IF kind = "global" THEN GlobalName(symbol) ELSE StaticName(file, symbol)

\* The key varManager files a tracked variable under.  The depth is part
\* of it as it is written, so a depth that is no number is a key of its own.
VarKey(frameId, threadId, depth, name) ==
    [frameId |-> frameId, threadId |-> threadId, depth |-> depth, name |-> name]

\* Line 465: varMgr.getVar(frame.frameId, frame.threadId, depth, name); the
\* empty set when there is none.
getVar(vmap, frameId, threadId, depth, name) ==
    {v \in vmap : v.frameId = frameId /\ v.threadId = threadId /\ v.depth = depth
                  /\ v.expression = name}

\* Line 482: varMgr.addVar(frame.frameId, frame.threadId, depth, name, true,
\* false, varCreateResponse).
addVar(frameId, threadId, depth, name, varCreateResponse) ==
    [frameId |-> frameId, threadId |-> threadId, depth |-> depth,
     expression |-> name, varname |-> varCreateResponse.name,
     value |-> varCreateResponse.value, type |-> varCreateResponse.type,
     numchild |-> varCreateResponse.numchild]

\* Lines 485-496: the variable handed to the front end.
Variable(expression, global, reference) ==
    [name |-> expression,
     value |-> IF global.value = Undefined THEN "<unknown>" ELSE global.value,
     type |-> global.type,
     variablesReference |-> reference]

\* A variable that is never expandable.
HasChildrenNever(global) == FALSE

\* Line 489: parseInt(global.numchild, 10) > 0 (false for NaN).
HasChildren(global) ==
    ~ParseInt(global.numchild).nan /\ ParseInt(global.numchild).val > 0

\* Lines 464-465 with the source expression in place of the display name.
LookupByExpression(vmap, frameRef, depth, name, expression) ==
    getVar(vmap, frameRef.frameId, frameRef.threadId, depth, <<expression>>)

\* Lines 464-465: let global = varMgr.getVar(frame.frameId, frame.threadId,
\* depth, name).
Lookup(vmap, frameRef, depth, name, expression) ==
    getVar(vmap, frameRef.frameId, frameRef.threadId, depth, name)

\* Lines 435-439 and 455-459 from the head of the remaining symbols, then
\* line 314: the next symbol's tracked variable is looked up and updated or
\* created (lines 464-483); after the last symbol the response is sent.  A
\* frame that is undefined makes frame.frameId throw (line 316).
ResolveNext(req, log1) ==
    IF req.symbols = <<>>
    THEN /\ vlog' = Append(log1, VariablesResponse(req.kind, req.servedFrame,
                                                   req.variables))
         /\ vreq' = NoVRequest
    ELSE IF req.frame.type = "none"
    THEN /\ vlog' = Append(log1, VariablesError(req.kind, req.servedFrame))
         /\ vreq' = NoVRequest
    ELSE LET symbol == Head(req.symbols)
             name == VarName(req.kind, req.file, symbol)
             global == Lookup(variableMap, req.frame, req.depth, name, symbol)
         IN  IF global /= {}
             THEN /\ vlog' = Append(log1, CmdVarUpdate(name))
                  /\ vreq' = [req EXCEPT !.pc = "varUpdate", !.name = name,
                                         !.expression = symbol]
             ELSE /\ vlog' = Append(log1, CmdVarCreate(name, symbol))
                  /\ vreq' = [req EXCEPT !.pc = "varCreate", !.name = name,
                                         !.expression = symbol]

\* Lines 485-496: the variable of the tracked variable global is built,
\* with a new object handle when it has children, and getVariables returns
\* it; the loop that awaits it goes on in a later turn.
ReturnVariable(global, vmap, log1) ==
    LET ref == ObjectVariableReference(globalHandle, global.varname)
        more == HasChildren(global)
        found == Variable(vreq.expression, global,
                          IF more THEN HandlesNext(variableHandles) ELSE 0)
    IN  /\ variableHandles' = IF more THEN HandlesCreate(variableHandles, ref)
                              ELSE variableHandles
        /\ variableMap' = vmap
        /\ vlog' = log1
        /\ vreq' = [vreq EXCEPT !.pc = "returned", !.symbols = Tail(@),
                                !.variables = Append(@, found)]

RECURSIVE CreateFrames(_, _, _)
\* super.stackTraceRequest (GDBDebugSession): one frame handle for each of
\* the n frames of thread 1, innermost first.
CreateFrames(table, n, level) ==
    IF level = n THEN table
    ELSE CreateFrames(HandlesCreate(table, StackFrame(1, level)), n, level + 1)

\* Lines 109-120: the pseudo frame is given a new frame handle, which
\* becomes this.globalHandle; then the frames of the thread are listed.
StackTraceRequest(n) ==
    /\ vreq.pc = "idle"
    /\ LET pseudo == HandlesCreate(frameHandles, PseudoFrame)
       IN  /\ globalHandle' = HandlesNext(frameHandles)
           /\ frameHandles' = CreateFrames(pseudo, n, 0)
           /\ vlog' = <<Request("stackTrace", n),
                      StackTraceResponse([i \in 1..n |-> HandlesNext(pseudo) + i - 1])>>
    /\ UNCHANGED <<variableHandles, variableMap, varobjs, vreq>>
    /\ UNCHANGED <<sessionVars, server, launch, teardown>>

\* A Static scope that carries the frame id itself.
StaticReferenceUnshifted(frameId) == ParseInt(NumberToString(frameId)).val

\* Line 133: STATIC_HANDLES_START + parseInt(args.frameId as any, 10).
StaticReference(frameId) ==
    STATIC_HANDLES_START + ParseInt(NumberToString(frameId)).val

\* Lines 122-141: the three scopes of a frame.
ScopesRequest(frameId) ==
    /\ vreq.pc = "idle"
    /\ variableHandles' = HandlesCreate(variableHandles, FrameVariableReference(frameId))
    /\ vlog' = <<Request("scopes", frameId),
                 ScopesResponse(<<Scope("Local", HandlesNext(variableHandles)),
                                 Scope("Global", GLOBAL_HANDLE_ID),
                                 Scope("Static", StaticReference(frameId))>>)>>
    /\ UNCHANGED <<frameHandles, globalHandle, variableMap, varobjs, vreq>>
    /\ UNCHANGED <<sessionVars, server, launch, teardown>>

\* Line 302 without its upper limit.
InStaticRangeOpen(reference) == reference >= STATIC_HANDLES_START

\* Line 302: the reference lies in the static range.
InStaticRange(reference) ==
    reference >= STATIC_HANDLES_START /\ reference <= STATIC_HANDLES_FINISH

\* Lines 291-318: a variables request is served by the first case its
\* reference falls in.  Locals and children are listed by GDBDebugSession
\* (handleVariableRequestFrame, handleVariableRequestObject).
VariablesRequest(reference) ==
    /\ vreq.pc = "idle"
    /\ LET ref == HandlesGet(variableHandles, reference)
       IN  IF reference = GLOBAL_HANDLE_ID
           THEN ResolveNext(VRequest("", "global", globalHandle,
                                     HandlesGet(frameHandles, globalHandle),
                                     <<>>, Number(-1), GlobalSymbols),
                            <<Request("variables", reference)>>)
           ELSE IF InStaticRange(reference)
           THEN LET frameHandle == reference - STATIC_HANDLES_START
                    frameRef == HandlesGet(frameHandles, frameHandle)
                IN  IF frameRef.type = "none"
                    THEN /\ vlog' = <<Request("variables", reference),
                                    VariablesError("static", frameHandle)>>
                         /\ vreq' = NoVRequest
                    ELSE /\ vlog' = <<Request("variables", reference),
                                    CmdStackInfoFrame(frameRef.threadId,
                                                      frameRef.frameId)>>
                         /\ vreq' = VRequest("stackInfoFrame", "static", frameHandle,
                                             frameRef, <<>>, Number(0), <<>>)
           ELSE IF ref.type \in {"frame", "object"}
           THEN /\ vlog' = <<Request("variables", reference), LibraryCall(ref)>>
                /\ vreq' = VRequest("library", ref.type, ref.frameHandle,
                                    NoReference, <<>>, Number(0), <<>>)
           ELSE /\ vlog' = <<Request("variables", reference),
                           VariablesResponse("none", ref.frameHandle, <<>>)>>
                /\ vreq' = NoVRequest
    /\ UNCHANGED <<variableHandles, frameHandles, globalHandle, variableMap, varobjs>>
    /\ UNCHANGED <<sessionVars, server, launch, teardown>>

\* Lines 437 and 457, then line 314: the loop takes the variable
\* getVariables returned and goes on with the next symbol; after the last
\* symbol the response is sent.
VariableReturned ==
    /\ vreq.pc = "returned"
    /\ ResolveNext(vreq, vlog)
    /\ UNCHANGED <<variableHandles, frameHandles, globalHandle, variableMap, varobjs>>
    /\ UNCHANGED <<sessionVars, server, launch, teardown>>

\* Lines 308 and 311: the call of the base session has settled; its
\* variables are sent in the response, its failure in an error response
\* (line 316).
LibraryReply(ok, found) ==
    /\ vreq.pc = "library"
    /\ vlog' = IF ok
               THEN Append(vlog, VariablesResponse(vreq.kind, vreq.servedFrame, found))
               ELSE vlog \o <<VFailed, VariablesError(vreq.kind, vreq.servedFrame)>>
    /\ vreq' = NoVRequest
    /\ UNCHANGED <<variableHandles, frameHandles, globalHandle, variableMap, varobjs>>
    /\ UNCHANGED <<sessionVars, server, launch, teardown>>

RECURSIVE SplitPath(_, _)
\* The segments of a path between its separators, after the segment cur.
SplitPath(s, cur) ==
    IF s = <<>> THEN <<cur>>
    ELSE IF Head(s) = "/" THEN <<cur>> \o SplitPath(Tail(s), <<>>)
         ELSE SplitPath(Tail(s), Append(cur, Head(s)))

RECURSIVE NormalizeString(_, _, _)
\* Empty segments and "." are dropped, ".." takes back the segment before
\* it, or stays when there is none to take back and the path is relative.
NormalizeString(segments, res, allowAboveRoot) ==
    IF segments = <<>> THEN res
    ELSE LET segment == Head(segments)
             rest == Tail(segments)
         IN  IF segment = <<>> \/ segment = <<".">>
             THEN NormalizeString(rest, res, allowAboveRoot)
             ELSE IF segment = <<".", ".">>
             THEN IF res /= <<>> /\ res[Len(res)] /= <<".", ".">>
                  THEN NormalizeString(rest, SubSeq(res, 1, Len(res) - 1),
                                       allowAboveRoot)
                  ELSE IF allowAboveRoot
                  THEN NormalizeString(rest, Append(res, segment), allowAboveRoot)
                  ELSE NormalizeString(rest, res, allowAboveRoot)
             ELSE NormalizeString(rest, Append(res, segment), allowAboveRoot)

RECURSIVE JoinPath(_)
JoinPath(segments) ==
    IF segments = <<>> THEN <<>>
    ELSE IF Len(segments) = 1 THEN Head(segments)
    ELSE Head(segments) \o <<"/">> \o JoinPath(Tail(segments))

\* path.normalize(result.frame.file || '') with the separator "/"; the file
\* is a sequence of characters, empty when the reply names none.
Normalize(file) ==
    IF file = <<>> THEN <<".">>
    ELSE LET isAbsolute == file[1] = "/"
             trailingSeparator == file[Len(file)] = "/"
             path == JoinPath(NormalizeString(SplitPath(file, <<>>), <<>>,
                                              ~isAbsolute))
             ended == IF path = <<>>
                      THEN IF isAbsolute THEN <<>>
                           ELSE IF trailingSeparator THEN <<".", "/">> ELSE <<".">>
                      ELSE IF trailingSeparator THEN Append(path, "/") ELSE path
         IN  IF isAbsolute THEN <<"/">> \o ended ELSE ended

\* Lines 446-452: the reply to stack-info-frame names the file of the frame;
\* its static symbols are looked up and the stack depth is asked for.
StackInfoFrameReply(ok, file) ==
    /\ vreq.pc = "stackInfoFrame"
    /\ IF ok
       THEN /\ vlog' = Append(vlog, CmdStackInfoDepth)
            /\ vreq' = [vreq EXCEPT !.pc = "stackInfoDepth",
                                    !.file = Normalize(file),
                                    !.symbols = StaticSymbols(Normalize(file))]
       ELSE /\ vlog' = vlog \o <<VFailed, VariablesError(vreq.kind, vreq.servedFrame)>>
            /\ vreq' = NoVRequest
    /\ UNCHANGED <<variableHandles, frameHandles, globalHandle, variableMap, varobjs>>
    /\ UNCHANGED <<sessionVars, server, launch, teardown>>

\* Lines 452-459: the reply to stack-info-depth; depth = parseInt(depth, 10),
\* which is NaN when the reply holds no number.
StackInfoDepthReply(ok, depth) ==
    /\ vreq.pc = "stackInfoDepth"
    /\ IF ok
       THEN ResolveNext([vreq EXCEPT !.depth = ParseInt(depth)], vlog)
       ELSE /\ vlog' = vlog \o <<VFailed, VariablesError(vreq.kind, vreq.servedFrame)>>
            /\ vreq' = NoVRequest
    /\ UNCHANGED <<variableHandles, frameHandles, globalHandle, variableMap, varobjs>>
    /\ UNCHANGED <<sessionVars, server, launch, teardown>>

\* The reply to var-create (mi.sendVarCreate).
VarCreateResponse(name, value, type, numchild) ==
    [name |-> name, value |-> value, type |-> type, numchild |-> numchild]

\* Line 477: the reply to var-create the request received.
VarCreated(varCreateResponse) ==
    [VBlank EXCEPT !.t = "reply", !.name = "var-create",
                   !.variables = <<varCreateResponse>>]

\* One entry of the changelist of a var-update reply.
VarUpdateChange(name, inScope, value) ==
    [name |-> name, in_scope |-> inScope, value |-> value]

\* Lines 476-483: the reply to var-create.  The backend refuses a name it
\* already tracks; the new variable is stored in the cache and returned.
VarCreateReply(ok, value, numchild) ==
    /\ vreq.pc = "varCreate"
    /\ LET key == VarKey(vreq.frame.frameId, vreq.frame.threadId, vreq.depth,
                         vreq.name)
           global == addVar(key.frameId, key.threadId, key.depth, key.name,
                            VarCreateResponse(vreq.name, value, "int", numchild))
       IN  IF ok
           THEN /\ vreq.name \notin {k.name : k \in varobjs}
                /\ HasChildren(global) =>
                      variableHandles.next < variableHandles.earlier + MaxHandles
                /\ varobjs' = varobjs \cup {key}
                /\ ReturnVariable(global, variableMap \cup {global},
                                  Append(vlog, VarCreated(
                                      VarCreateResponse(vreq.name, value, "int",
                                                        numchild))))
           ELSE /\ vlog' = vlog \o <<VFailed, VariablesError(vreq.kind, vreq.servedFrame)>>
                /\ vreq' = NoVRequest
                /\ UNCHANGED <<variableHandles, variableMap, varobjs>>
    /\ UNCHANGED <<frameHandles, globalHandle>>
    /\ UNCHANGED <<sessionVars, server, launch, teardown>>

\* Line 468: the reply to var-update the request received.
VarUpdateResponse(changelist) ==
    [VBlank EXCEPT !.t = "reply", !.name = "var-update", !.variables = changelist]

\* An update that takes the reported value whatever the reply says of it.
ApplyUpdateAlways(global, changelist) ==
    IF Len(changelist) > 0 THEN [global EXCEPT !.value = changelist[1].value]
    ELSE global

\* Lines 470-473: the first change is applied when it is in scope and names
\* the cached variable.
ApplyUpdate(global, changelist) ==
    IF /\ Len(changelist) > 0
       /\ changelist[1].in_scope = "true"
       /\ changelist[1].name = global.varname
    THEN [global EXCEPT !.value = changelist[1].value]
    ELSE global

\* Lines 467-473: the reply to var-update.
VarUpdateReply(ok, changelist) ==
    /\ vreq.pc = "varUpdate"
    /\ LET global == CHOOSE v \in Lookup(variableMap, vreq.frame, vreq.depth,
                                         vreq.name, vreq.expression) : TRUE
           updated == ApplyUpdate(global, changelist)
       IN  IF ok
           THEN /\ HasChildren(global) =>
                      variableHandles.next < variableHandles.earlier + MaxHandles
                /\ ReturnVariable(updated, (variableMap \ {global}) \cup {updated},
                                  Append(vlog, VarUpdateResponse(changelist)))
           ELSE /\ vlog' = vlog \o <<VFailed, VariablesError(vreq.kind, vreq.servedFrame)>>
                /\ vreq' = NoVRequest
                /\ UNCHANGED <<variableHandles, variableMap>>
    /\ UNCHANGED <<frameHandles, globalHandle, varobjs>>
    /\ UNCHANGED <<sessionVars, server, launch, teardown>>

\* The references of variables requests: every reference a scopes response
\* for one of frameIds can carry, every handle handed out, and two that
\* mean nothing.
ReferencesOf(frameIds) ==
    {GLOBAL_HANDLE_ID, START_HANDLE - 1, STATIC_HANDLES_START}
    \cup {StaticReference(f) : f \in frameIds}
    \cup DOMAIN variableHandles.map

\* The changelists a var-update reply can carry for the variable name.
ChangesOf(name, scopes, values) ==
    {<<>>} \cup {<<VarUpdateChange(n, sc, v)>> :
                    n \in {name, <<"var1">>}, sc \in scopes, v \in values}

\* The requests of the front end on the frames frameIds and the replies of
\* the backend: files and depths of frames, values and child counts of
\* variables.
Inspect(frameIds, files, depths, values, children, scopes) ==
    \/ \E n \in 0..2 :
          /\ frameHandles.next + n + 1 <= START_HANDLE + MaxFrameHandles
          /\ StackTraceRequest(n)
    \/ \E frameId \in frameIds :
          /\ variableHandles.next < variableHandles.earlier + MaxHandles
          /\ ScopesRequest(frameId)
    \/ \E reference \in ReferencesOf(frameIds) : VariablesRequest(reference)
    \/ \E ok \in BOOLEAN, file \in files : StackInfoFrameReply(ok, file)
    \/ \E ok \in BOOLEAN, depth \in depths : StackInfoDepthReply(ok, depth)
    \/ \E ok \in BOOLEAN, found \in LibraryVariables : LibraryReply(ok, found)
    \/ \E ok \in BOOLEAN, value \in values, numchild \in children :
          VarCreateReply(ok, value, numchild)
    \/ \E ok \in BOOLEAN, changelist \in ChangesOf(vreq.name, scopes, values) :
          VarUpdateReply(ok, changelist)
    \/ VariableReturned

\* The frame ids of scopes requests: a frame of the stack trace and the ends
\* of the static range.
FrameIds == {START_HANDLE + 1,
             STATIC_HANDLES_FINISH - STATIC_HANDLES_START,
             STATIC_HANDLES_FINISH - STATIC_HANDLES_START + 1}

\* The handle table has handed out nothing yet, or all but the last
\* MaxHandles - 1 handles below the static range (to scopes requests).
InitVars ==
    /\ InitSession(<<>>)
    /\ \E earlier \in {START_HANDLE, STATIC_HANDLES_START - (MaxHandles - 1)} :
          InitVariables(earlier)
    /\ InitServer
    /\ InitLaunch
    /\ InitTeardown(TRUE)

NextVars ==
    Inspect(FrameIds, {SourceA}, {<<"1">>}, {"1"}, {<<"0">>, <<"2">>}, {"true"})

SpecVars == InitVars /\ [][NextVars]_vars

\* ------------------------------------------------------------ updates
\* Variables requests on the Globals scope and on the Statics scope of one
\* frame, with update replies in and out of scope, of the name of the
\* tracked variable and of another, of the same value and of a new one.
NextUpdate ==
    Inspect({START_HANDLE + 1}, {SourceA}, {<<"1">>}, {"1", "2"}, {<<"0">>},
            {"true", "false"})

SpecUpdate == Init /\ [][NextUpdate]_vars

\* ------------------------------------------------------------ returned variables
\* Variables requests on variables with and without a value, with and
\* without children.
NextReturn ==
    Inspect({START_HANDLE + 1}, {SourceA}, {<<"1">>}, {Undefined, "1"},
            {<<"0">>, <<"2">>}, {"true"})

SpecReturn == Init /\ [][NextReturn]_vars

\* ------------------------------------------------------------ cache keys
\* The files a frame is reported in: a.c and b.c, a.c by other paths, and
\* none.
KeyFiles ==
    {SourceA, SourceB, <<".", "/">> \o SourceA,
     <<"d", "/", ".", ".", "/">> \o SourceA, <<>>}

\* Variables requests on the Globals scope and on the Statics scope of a
\* frame that is in a.c at one time and in b.c at another, at a depth that
\* is a number or none; the symbol count is a global and a static of both
\* files.
NextKeys ==
    Inspect({START_HANDLE + 1}, KeyFiles, {<<"1">>, <<"x">>}, {"1", "2"}, {<<"0">>},
            {"true"})

SpecKeys == Init /\ [][NextKeys]_vars

\* ------------------------------------------------------------ failing commands
\* The stop an interrupt ends in.
InterruptStops == StopResultsOf({<<"1">>}, {"all"}, {"SIGINT"})
                     \ StopResultsOf({<<"1">>}, {"all"}, {})

\* No request is in progress.
Quiet == pc = "idle" /\ vreq.pc = "idle"

\* The requests of the front end, one at a time, each with commands that
\* succeed or fail, on a target that runs and stops: the single-command
\* requests, one reconciliation, one stack trace and the variables of the
\* Globals scope and of the Statics scope of its frame.  A refused resume
\* that no request awaits may end the adapter, which serves nothing then.
NextRequests ==
    \/ Serving /\ Quiet /\ ConfigurationDone
    \/ \E threadId \in {1} : Serving /\ Quiet /\ PauseRequest(threadId)
    \/ \E expression \in {"p"} : Serving /\ Quiet /\ EvaluateRequest(expression)
    \/ \E ok \in BOOLEAN, output \in {Undefined, "", "1"} :
          Serving /\ SimpleReply(ok, output)
    \/ \E breakpoints \in SeqsUpTo(SessionEntries, 1) :
          /\ Serving
          /\ Quiet
          /\ log = <<>>
          /\ SetBreakPointsRequest("a.c", breakpoints)
    \/ Serving /\ AwaitPaused
    \/ \E ok \in BOOLEAN : Serving /\ BreakListReply(ok)
    \/ \E ok \in BOOLEAN : Serving /\ BreakInsertReply(ok)
    \/ \E ok \in BOOLEAN : Serving /\ BreakDeleteReply(ok)
    \/ Serving /\ GDBRunning
    \/ \E ends \in BOOLEAN : Serving /\ ContinueRejected(ends)
    \/ \E resultData \in InterruptStops : Serving /\ GDBStopped(resultData)
    \/ Serving /\ Quiet /\ globalHandle = 0 /\ StackTraceRequest(1)
    \/ \E reference \in {GLOBAL_HANDLE_ID, StaticReference(START_HANDLE + 1)} :
          Serving /\ Quiet /\ VariablesRequest(reference)
    \/ \E ok \in BOOLEAN : Serving /\ StackInfoFrameReply(ok, SourceA)
    \/ \E ok \in BOOLEAN : Serving /\ StackInfoDepthReply(ok, <<"1">>)
    \/ \E ok \in BOOLEAN : Serving /\ VarCreateReply(ok, "1", <<"0">>)
    \/ \E ok \in BOOLEAN : Serving /\ VarUpdateReply(ok, <<>>)
    \/ Serving /\ VariableReturned

\* The backend holds breakpoints of the file on a line no request asks for.
InitRequests == \E table \in TablesOf({"a.c"}, {20}, {Undefined}) : InitWith(table)

SpecRequests == InitRequests /\ [][NextRequests]_vars

\* ------------------------------------------------------------ log point registration
\* Breakpoints and log points on one line, with and without a condition,
\* against tables with rows on that line.
LogEntries ==
    {SourceBreakpoint(10, c, FALSE, <<>>, m) :
        c \in {Undefined, "x > 0"}, m \in {Undefined, "hit", "two"}}

InitLog == \E table \in TablesOf({"a.c"}, {10}, {Undefined, "x > 0"}) : InitWith(table)

NextLog == Reconcile({"a.c"}, SeqsUpTo(LogEntries, MaxDesired))

SpecLog == InitLog /\ [][NextLog]_vars

\* ------------------------------------------------------------ progress of a request
\* Set-breakpoints requests on a target that is resumed, runs and stops
\* with any notification, every backend command succeeding or failing.
NextLive ==
    \/ \E breakpoints \in SeqsUpTo(SessionEntries, 1) :
          /\ nextId + Len(breakpoints) - 1 <= MaxId
          /\ SetBreakPointsRequest("a.c", breakpoints)
    \/ AwaitPaused
    \/ \E ok \in BOOLEAN : BreakListReply(ok)
    \/ \E ok \in BOOLEAN : BreakInsertReply(ok)
    \/ \E ok \in BOOLEAN : BreakDeleteReply(ok)
    \/ ConfigurationDoneRequest
    \/ \E ok \in BOOLEAN : ConfigurationDoneReply(ok)
    \/ GDBRunning
    \/ \E resultData \in SessionStops : GDBStopped(resultData)

\* The continuation of a resolved wait is run, the backend answers every
\* command, reports a resumed target running and a running target stopped.
FairLive ==
    /\ WF_vars(AwaitPaused)
    /\ WF_vars(\E ok \in BOOLEAN : BreakListReply(ok))
    /\ WF_vars(\E ok \in BOOLEAN : BreakInsertReply(ok))
    /\ WF_vars(\E ok \in BOOLEAN : BreakDeleteReply(ok))
    /\ WF_vars(\E ok \in BOOLEAN : ConfigurationDoneReply(ok))
    /\ WF_vars(GDBRunning)
    /\ WF_vars(\E resultData \in SessionStops : GDBStopped(resultData))

SpecLive == Init /\ [][NextLive]_vars /\ FairLive

\* ------------------------------------------------------------ aborted reconciliations
\* One reconciliation on a.c against every table, on a target that is
\* halted or running, each backend command succeeding or failing.  The
\* target is resumed by one configurationDone request, answered before the
\* reconciliation starts.
NextAbort ==
    \/ \E breakpoints \in SeqsUpTo(PlainEntries, MaxDesired) :
          /\ Serving
          /\ log = <<>>
          /\ vreq.pc = "idle"
          /\ SetBreakPointsRequest("a.c", breakpoints)
    \/ Serving /\ AwaitPaused
    \/ \E ok \in BOOLEAN : Serving /\ BreakListReply(ok)
    \/ \E ok \in BOOLEAN : Serving /\ BreakInsertReply(ok)
    \/ \E ok \in BOOLEAN : Serving /\ BreakDeleteReply(ok)
    \/ Serving /\ log = <<>> /\ vlog = <<>> /\ ConfigurationDoneRequest
    \/ \E ok \in BOOLEAN : Serving /\ ConfigurationDoneReply(ok)
    \/ Serving /\ GDBRunning
    \/ \E ends \in BOOLEAN : Serving /\ ContinueRejected(ends)
    \/ \E resultData \in InterruptStops : Serving /\ GDBStopped(resultData)

SpecAbort == InitLines /\ [][NextAbort]_vars

\* ------------------------------------------------------------ process supervisor
\* The readiness and error predicates of the concrete server: a block of
\* output announces the start when it holds an "r", an error when it holds
\* an "e".
serverStarted(data) == \E i \in 1..Len(data) : data[i] = "r"

serverError(data) == \E i \in 1..Len(data) : data[i] = "e"

\* os.EOL
EOL == "\n"

\* buffer.lastIndexOf('\n'), counted from 1; 0 when there is none.
LastIndexOf(buffer, c) ==
    LET at == {i \in 1..Len(buffer) : buffer[i] = c}
    IN  IF at = {} THEN 0 ELSE CHOOSE i \in at : \A j \in at : j <= i

\* buffer.indexOf('\n'), counted from 1; 0 when there is none.
IndexOf(buffer, c) ==
    LET at == {i \in 1..Len(buffer) : buffer[i] = c}
    IN  IF at = {} THEN 0 ELSE CHOOSE i \in at : \A j \in at : i <= j

\* Line 147: data.split(EOL)[0].
FirstLine(data) ==
    IF IndexOf(data, EOL) = 0 THEN data ELSE SubSeq(data, 1, IndexOf(data, EOL) - 1)

\* An exit code: a number, null or undefined.
ExitCode(kind, val) == [kind |-> kind, val |-> val]

NoCode == ExitCode("undefined", 0)

\* An event of the supervisor.
Emitted(name, data, code, signal) ==
    [name |-> name, data |-> data, code |-> code, signal |-> signal]

\* Line 102: this.emit('exit', code, signal).
ExitEvent(code, signal) == Emitted("exit", <<>>, code, signal)

\* Lines 106 and 147: this.emit('error', message).
ErrorEvent(data, code) == Emitted("error", data, code, "")

\* Line 133: this.emit(event, data).
DataEvent(event, data) == Emitted(event, data, NoCode, "")

\* Line 105: !!code.
CodeTruthy(code) == code.kind = "number" /\ code.val /= 0

\* An exit that reports every exit as an error.
ExitEventsAlways(code, signal) == <<ExitEvent(code, signal), ErrorEvent(<<>>, code)>>

\* Lines 101-108: the events of onExit, in the order they are emitted.
ExitEvents(code, signal) ==
    IF CodeTruthy(code)
    THEN <<ExitEvent(code, signal), ErrorEvent(<<>>, code)>>
    ELSE <<ExitEvent(code, signal)>>

\* A timer that is left as it is.
clearTimerNot(t) == t

\* Lines 151-156: clearTimer.
clearTimer(t) == IF t /= "none" THEN "none" ELSE t

\* Resolvers that are kept.
clearPromisesNot(r) == r

\* Lines 158-161: clearPromises, for each of launchResolve and launchReject.
clearPromises(r) == FALSE

\* Lines 110-116: onSpawnError.
onSpawnError(error) ==
    IF launchReject
    THEN /\ timer' = clearTimer(timer)
         /\ future' = [state |-> "rejected", settled |-> future.settled + 1,
                       error |-> error]
         /\ launchResolve' = clearPromises(launchResolve)
         /\ launchReject' = clearPromises(launchReject)
    ELSE UNCHANGED <<timer, future, launchResolve, launchReject>>

\* A spawn() that arms no timer.
spawnUntimed ==
    /\ future.state = "none"
    /\ future' = [state |-> "pending", settled |-> 0, error |-> ""]
    /\ launchResolve' = TRUE
    /\ launchReject' = TRUE
    /\ timer' = "none"
    /\ process' = "spawning"
    /\ slog' = Did("spawn", <<>>, <<>>, "", FALSE)
    /\ UNCHANGED <<outBuffer, errBuffer>>

\* Lines 49-58: spawn() stores the resolvers, arms the timer and waits for
\* the server arguments.
spawn ==
    /\ future.state = "none"
    /\ future' = [state |-> "pending", settled |-> 0, error |-> ""]
    /\ launchResolve' = TRUE
    /\ launchReject' = TRUE
    /\ timer' = "armed"
    /\ process' = "spawning"
    /\ slog' = Did("spawn", <<>>, <<>>, "", FALSE)
    /\ UNCHANGED <<outBuffer, errBuffer>>

\* Lines 58-79: the arguments are resolved and the process is spawned, or
\* one of the two throws and onSpawnError is called.  child_process.spawn
\* returns a ChildProcess also for a command it cannot start (spawned is
\* false): no process runs then and the 'error' event follows.
spawnProcess(thrown, spawned) ==
    /\ process = "spawning"
    /\ IF thrown
       THEN /\ onSpawnError("spawn")
            /\ process' = "none"
            /\ slog' = Did("spawnProcess", <<>>, <<>>,
                           IF launchReject THEN "reject" ELSE "", FALSE)
       ELSE /\ process' = IF spawned THEN "running" ELSE "unspawned"
            /\ slog' = Did("spawnProcess", <<>>, <<>>, "", FALSE)
            /\ UNCHANGED <<timer, future, launchResolve, launchReject>>
    /\ UNCHANGED <<outBuffer, errBuffer>>

\* Line 55: the timer expires and calls onSpawnError with the timeout error.
onTimeout ==
    /\ timer = "armed"
    /\ IF launchReject
       THEN onSpawnError("timeout")
       ELSE /\ timer' = "fired"
            /\ UNCHANGED <<future, launchResolve, launchReject>>
    /\ slog' = Did("timeout", <<>>, <<>>, IF launchReject THEN "reject" ELSE "", FALSE)
    /\ UNCHANGED <<process, outBuffer, errBuffer>>

\* Line 69: the ChildProcess emits 'error': the command could not be
\* started, and then nothing runs and no 'exit' follows, or a process that
\* runs could not be signalled.
onProcessError ==
    /\ process \in {"running", "unspawned"}
    /\ onSpawnError("process")
    /\ slog' = Did("error", <<>>, <<>>, IF launchReject THEN "reject" ELSE "", FALSE)
    /\ process' = IF process = "unspawned" THEN "failed" ELSE process
    /\ UNCHANGED <<outBuffer, errBuffer>>

\* Lines 68 and 101-108: the process exits.  A listener of 'error' that
\* throws ends onExit by its exception.
onExit(code, signal, throws) ==
    /\ process = "running"
    /\ process' = "exited"
    /\ slog' = Did("exit", ExitEvents(code, signal), <<>>, "",
                   throws /\ Len(ExitEvents(code, signal)) > 1)
    /\ UNCHANGED <<outBuffer, errBuffer, launchResolve, launchReject, timer, future>>

\* Lines 130-132 with the first newline in place of the last: the end of
\* the first complete line.
BlockEndFirst(buffer) == IndexOf(buffer, "\n")

\* Lines 130-132: the block handed on ends before the last newline of the
\* buffer; 0 when the buffer holds no newline.
BlockEnd(buffer) == LastIndexOf(buffer, "\n")

\* Lines 126-149: onData appends the chunk to the buffer of its stream; when
\* the buffer holds a newline, everything before the last newline is
\* emitted as one event and handed to handleData, and the rest stays in the
\* buffer.  handleData resolves a pending start and emits the first line of
\* an error block; when a listener of 'error' throws, the exception leaves
\* onData before the buffer is cut.
onData(buffer, chunk, event, throws) ==
    LET joined == buffer \o chunk
        end == BlockEnd(joined)
        data == SubSeq(joined, 1, end - 1)
        starts == launchResolve /\ serverStarted(data)
        fails == serverError(data)
    IN  IF end = 0
        THEN [buffer |-> joined, did |-> Did(event, <<>>, <<>>, "", FALSE)]
        ELSE [buffer |-> IF fails /\ throws THEN joined
                         ELSE SubSeq(joined, end + 1, Len(joined)),
              did |-> Did(event,
                          <<DataEvent(event, data)>> \o
                          (IF fails THEN <<ErrorEvent(FirstLine(data), NoCode)>>
                           ELSE <<>>),
                          <<>>,
                          IF starts THEN "resolve" ELSE "",
                          fails /\ throws)]

\* Lines 139-144: a block that announces the start resolves the promise.
handleData(did) ==
    IF did.settles = "resolve"
    THEN /\ timer' = clearTimer(timer)
         /\ future' = [state |-> "resolved", settled |-> future.settled + 1,
                       error |-> ""]
         /\ launchResolve' = clearPromises(launchResolve)
         /\ launchReject' = clearPromises(launchReject)
    ELSE UNCHANGED <<timer, future, launchResolve, launchReject>>

\* Lines 72 and 118-120: data arrives on the standard output of the process.
onStdout(chunk, throws) ==
    /\ process \in {"running", "exited"}
    /\ LET r == onData(outBuffer, chunk, "stdout", throws)
       IN  /\ outBuffer' = r.buffer
           /\ slog' = r.did
           /\ handleData(r.did)
    /\ UNCHANGED <<process, errBuffer>>

\* Lines 75 and 122-124: data arrives on the standard error of the process.
onStderr(chunk, throws) ==
    /\ process \in {"running", "exited"}
    /\ LET r == onData(errBuffer, chunk, "stderr", throws)
       IN  /\ errBuffer' = r.buffer
           /\ slog' = r.did
           /\ handleData(r.did)
    /\ UNCHANGED <<process, outBuffer>>

\* ChildProcess.kill: a process that runs is sent the signal; a process that
\* is gone, or whose start failed and was reported by 'error', is sent
\* nothing.  Between the return of child_process.spawn for a command that
\* could not be started and its 'error' event the ChildProcess holds a
\* handle without a process: the signal call is made on it, and whether a
\* signal goes out (delivered) is not decided by the adapter's code.
ChildKill(p, signal, delivered) ==
    IF p = "running" \/ (p = "unspawned" /\ delivered) THEN <<signal>> ELSE <<>>

\* kill() without the test of this.process: the call on undefined throws.
killedUnguarded(p, delivered) ==
    Did("kill", <<>>, ChildKill(p, "SIGINT", delivered), "",
        p \in {"none", "spawning"})

\* Lines 83-87: kill() signals the process when this.process is defined.
killed(p, delivered) ==
    IF p \in {"running", "exited", "unspawned", "failed"}
    THEN Did("kill", <<>>, ChildKill(p, "SIGINT", delivered), "", FALSE)
    ELSE Did("kill", <<>>, <<>>, "", FALSE)

\* Lines 83-87: kill() is called.
kill ==
    /\ \E delivered \in BOOLEAN : slog' = killed(process, delivered)
    /\ UNCHANGED <<process, outBuffer, errBuffer, launchResolve, launchReject,
                   timer, future>>

\* The calls of the supervisor on their own: no session listens to it.
Alone == UNCHANGED <<sessionVars, inspection, launch, teardown>>

Spawn == spawn /\ Alone

SpawnProcess(thrown, spawned) == spawnProcess(thrown, spawned) /\ Alone

TimerExpires == onTimeout /\ Alone

ProcessError == onProcessError /\ Alone

ProcessExit(code, signal, throws) == onExit(code, signal, throws) /\ Alone

Stdout(chunk, throws) == onStdout(chunk, throws) /\ Alone

Stderr(chunk, throws) == onStderr(chunk, throws) /\ Alone

ServerKill == kill /\ Alone

\* The exit codes and signals a process ends with.
ExitCodes ==
    {ExitCode("number", 0), ExitCode("number", 1), ExitCode("null", 0),
     ExitCode("undefined", 0)}

\* The supervisor with a process that writes chunks to its standard output
\* and errChunks to its standard error.
Supervise(chunks, errChunks) ==
    \/ Spawn
    \/ \E thrown, spawned \in BOOLEAN : SpawnProcess(thrown, spawned)
    \/ TimerExpires
    \/ ProcessError
    \/ \E code \in ExitCodes, signal \in {"", "SIGINT"}, throws \in BOOLEAN :
          ProcessExit(code, signal, throws)
    \/ \E chunk \in chunks, throws \in BOOLEAN :
          /\ Len(outBuffer) + Len(chunk) <= MaxBuffer
          /\ Stdout(chunk, throws)
    \/ \E chunk \in errChunks, throws \in BOOLEAN :
          /\ Len(errBuffer) + Len(chunk) <= MaxBuffer
          /\ Stderr(chunk, throws)
    \/ ServerKill

\* Output made of a readiness mark, an error mark and newlines.
ServerChunks == SeqsUpTo({"r", "e", "\n"}, MaxChunkLen) \ {<<>>}

InitIdle == InitWith(<<>>)

\* What it writes to its standard error: lines and the start of a line.
ServerErrChunks == {<<"r", "\n">>, <<"e", "\n">>, <<"e">>}

NextServer == Supervise(ServerChunks, ServerErrChunks)

SpecServer == InitIdle /\ [][NextServer]_vars

\* The supervisor with a timer that expires when it stays armed (line 55:
\* setTimeout with the fixed delay TIMEOUT).
SpecServerTimed == InitIdle /\ [][NextServer]_vars /\ WF_vars(TimerExpires)

\* ------------------------------------------------------------ launch
\* What launchRequest and runSession have done, one entry each: the request
\* taken ("request"), an event or a response sent to the front end ("event",
\* "response"), a process started ("spawn"), a command sent to the backend
\* ("cmd").
Sent(t, name, text, code) == [t |-> t, name |-> name, text |-> text, code |-> code]

\* Lines 73 and 82: the request, with args.runToMain.
LaunchArguments(command, runToMain) ==
    Sent("request", command, IF runToMain THEN "runToMain" ELSE "", 0)

\* new OutputEvent(text).
LaunchOutput(text) == Sent("event", "output", text, 0)

\* Lines 498-503: progressEvent(percent, message).
progressEvent(percent, message) == Sent("event", "progress", message, percent)

\* Line 427: new InitializedEvent().
InitializedEvent == Sent("event", "initialized", "", 0)

\* Line 366: new OutputEvent(data, 'stdout').
ServerOutputEvent(data) == OutputEvent(data)

\* A command of the start-up sequence.
LaunchCommand(name) == Sent("cmd", name, "", 0)

\* Lines 76 and 85: sendResponse(response).
LaunchResponse(command) == Sent("response", command, "", 0)

\* Lines 78 and 87: sendErrorResponse(response, 1, err.message).
LaunchErrorResponse(command, message) == Sent("response", command, message, 1)

\* Listeners that forward the output of the server and nothing else.
RECURSIVE ListenersOfOutput(_)
ListenersOfOutput(emitted) ==
    IF emitted = <<>> THEN <<>>
    ELSE (IF Head(emitted).name = "stderr"
          THEN <<ServerOutputEvent(Head(emitted).data)>>
          ELSE <<>>)
         \o ListenersOfOutput(Tail(emitted))

\* Lines 366-370: what the session's listeners send for the events a call
\* of the supervisor emitted.
RECURSIVE Listeners(_)
Listeners(emitted) ==
    IF emitted = <<>> THEN <<>>
    ELSE (IF Head(emitted).name = "stderr"
          THEN <<ServerOutputEvent(Head(emitted).data)>>
          ELSE IF Head(emitted).name = "error" THEN <<TerminatedEvent>>
          ELSE <<>>)
         \o Listeners(Tail(emitted))

\* Lines 73-89: the request is taken and runSession loads the symbols.
LaunchRequest(command, runToMain) ==
    /\ lpc = "idle"
    /\ llog = <<>>
    /\ lpc' = "loadSymbols"
    /\ llog' = <<LaunchArguments(command, runToMain)>>
    /\ UNCHANGED heard
    /\ UNCHANGED <<sessionVars, inspection, server, teardown>>

\* An exception that leaves runSession, with its message.
Threw(message) == Sent("thrown", "runSession", message, 0)

\* runSession ends by an exception: its promise is rejected, and the
\* request goes on in its catch block when its turn comes.
Caught(message) ==
    /\ lpc' = "thrown"
    /\ llog' = Append(llog, Threw(message))

\* Lines 75-79 and 84-88: the await of runSession is over; the request sends
\* its response, or the error response with the message of the exception.
LaunchRequestSettled ==
    /\ lpc \in {"returned", "thrown"}
    /\ lpc' = "done"
    /\ llog' = Append(llog, IF lpc = "returned"
                            THEN LaunchResponse(llog[1].name)
                            ELSE LaunchErrorResponse(llog[1].name,
                                                     llog[Len(llog)].text))
    /\ UNCHANGED heard
    /\ UNCHANGED <<sessionVars, inspection, server, teardown>>

\* Lines 372-377: the symbols are loaded, or a diagnostic is sent.
LoadSymbolsReply(ok) ==
    /\ lpc = "loadSymbols"
    /\ lpc' = "findFreePort"
    /\ llog' = IF ok THEN llog
               ELSE Append(llog, LaunchOutput("Unable to load debug symbols"))
    /\ UNCHANGED heard
    /\ UNCHANGED <<sessionVars, inspection, server, teardown>>

\* Line 379: what findFreePort returned, 0 for no port.
PortFound(port) == Sent("port", "findFreePort", "", port)

\* Lines 379-401: the port scanner answers; without a port runSession
\* throws, with one it starts the server and waits for it.
FindFreePortReply(port) ==
    /\ lpc = "findFreePort"
    /\ IF port = 0
       THEN /\ lpc' = "thrown"
            /\ llog' = llog \o
                   <<PortFound(port),
                     Threw("Unable to find a free port to use for debugging")>>
            /\ UNCHANGED <<server, heard>>
       ELSE /\ llog' = llog \o <<PortFound(port),
                                 LaunchOutput("Selected port"),
                                 progressEvent(0, "Starting Debugger")>>
            /\ spawn
            /\ heard' = Listeners(slog'.emitted)
            /\ lpc' = "gdbServer.spawn"
    /\ UNCHANGED <<sessionVars, inspection, teardown>>

\* An await that goes on whatever became of the promise.
ThrownNever(f) == FALSE

\* Line 401: await throws when the promise is rejected.
Thrown(f) == f.state = "rejected"

\* Lines 401-402: the promise of the server is settled; runSession throws
\* its error or starts the backend.
ServerSpawnSettled ==
    /\ lpc = "gdbServer.spawn"
    /\ future.state \in {"resolved", "rejected"}
    /\ IF Thrown(future)
       THEN Caught(future.error)
       ELSE /\ lpc' = "spawn"
            /\ llog' = Append(llog, Sent("spawn", "gdb", "", 0))
    /\ UNCHANGED heard
    /\ UNCHANGED <<sessionVars, inspection, server, teardown>>

\* Lines 402-405: the backend is started and the first command is sent.
GdbSpawnReply(ok) ==
    /\ lpc = "spawn"
    /\ IF ok
       THEN /\ lpc' = "sendTargetAsyncOn"
            /\ llog' = Append(llog, LaunchCommand("sendTargetAsyncOn"))
            /\ gdbAlive' = TRUE
       ELSE /\ Caught("spawn")
            /\ UNCHANGED gdbAlive
    /\ UNCHANGED heard
    /\ UNCHANGED <<sessionVars, inspection, server, tpc, stopResolved, tlog>>

\* A start-up that announces the initialization after any command.
AfterCommandShort(at, runToMain) ==
    [sent |-> <<LaunchOutput("Image loaded"), InitializedEvent>>,
     next |-> "returned"]

\* Lines 405-427: what runSession does when the command it waits for has
\* succeeded: the events it sends, the next command it sends and waits
\* for; after the last command the InitializedEvent, and it returns.
AfterCommand(at, runToMain) ==
    CASE at = "sendTargetAsyncOn" ->
             [sent |-> <<LaunchCommand("sendTargetSelectRemote")>>,
              next |-> "sendTargetSelectRemote"]
      [] at = "sendTargetSelectRemote" ->
             [sent |-> <<LaunchCommand("sendMonitorResetHalt")>>,
              next |-> "sendMonitorResetHalt"]
      [] at = "sendMonitorResetHalt" ->
             [sent |-> <<LaunchOutput("Attached to debugger"),
                         progressEvent(0, "Loading Image"),
                         LaunchCommand("sendTargetDownload")>>,
              next |-> "sendTargetDownload"]
      [] at = "sendTargetDownload" ->
             [sent |-> <<progressEvent(100, "Loading Image"),
                         LaunchCommand("sendMonitorResetHalt")>>,
              next |-> "sendMonitorResetHaltAgain"]
      [] at = "sendMonitorResetHaltAgain" ->
             [sent |-> <<LaunchCommand("sendEnablePrettyPrint")>>,
              next |-> "sendEnablePrettyPrint"]
      [] at = "sendEnablePrettyPrint" /\ runToMain ->
             [sent |-> <<LaunchCommand("sendBreakOnFunction")>>,
              next |-> "sendBreakOnFunction"]
      [] OTHER ->
             [sent |-> <<LaunchOutput("Image loaded"), InitializedEvent>>,
              next |-> "returned"]

LaunchCommands ==
    {"sendTargetAsyncOn", "sendTargetSelectRemote", "sendMonitorResetHalt",
     "sendTargetDownload", "sendMonitorResetHaltAgain", "sendEnablePrettyPrint",
     "sendBreakOnFunction"}

\* Lines 405-427: the backend answers the command runSession waits for.  A
\* failure is thrown.
LaunchCommandReply(ok) ==
    /\ lpc \in LaunchCommands
    /\ IF ok
       THEN LET a == AfterCommand(lpc, llog[1].text = "runToMain")
            IN  /\ lpc' = a.next
                /\ llog' = llog \o a.sent
       ELSE Caught("command")
    /\ UNCHANGED heard
    /\ UNCHANGED <<sessionVars, inspection, server, teardown>>

\* A call of the supervisor while the session listens to it (lines 366-370).
Heard(call) ==
    /\ call
    /\ heard' = Listeners(slog'.emitted)
    /\ UNCHANGED <<sessionVars, inspection, lpc, llog, teardown>>

\* What the server writes while it starts: its readiness, an error, a line
\* of no meaning.
LaunchChunks == {<<"r", "\n">>, <<"e", "\n">>, <<"\n">>}

\* The server as the session runs it: the listener of 'error' throws.
ServerOf(chunks) ==
    \/ Heard(\E thrown, spawned \in BOOLEAN : spawnProcess(thrown, spawned))
    \/ Heard(onTimeout)
    \/ Heard(onProcessError)
    \/ Heard(\E code \in {ExitCode("number", 0), ExitCode("number", 1)} :
                 onExit(code, "", TRUE))
    \/ Heard(\E chunk \in chunks :
                 /\ Len(outBuffer) + Len(chunk) <= MaxBuffer
                 /\ onStdout(chunk, TRUE))
    \/ Heard(\E chunk \in chunks :
                 /\ Len(errBuffer) + Len(chunk) <= MaxBuffer
                 /\ onStderr(chunk, TRUE))

\* The answers of the port scanner: no port, or a port.
Ports == {0, 50000}

InitLaunchIdle ==
    /\ InitSession(<<>>)
    /\ InitVariables(START_HANDLE)
    /\ InitServer
    /\ InitLaunch
    /\ InitTeardown(FALSE)

\* The launch, with its inputs.
Launching(commands, mains, oks, ports) ==
    \/ \E command \in commands, runToMain \in mains :
          LaunchRequest(command, runToMain)
    \/ \E ok \in oks : LoadSymbolsReply(ok)
    \/ \E port \in ports : FindFreePortReply(port)
    \/ ServerSpawnSettled
    \/ \E ok \in oks : GdbSpawnReply(ok)
    \/ \E ok \in oks : LaunchCommandReply(ok)
    \/ LaunchRequestSettled

NextLaunch ==
    \/ Launching({"launch", "attach"}, BOOLEAN, BOOLEAN, Ports)
    \/ ServerOf(LaunchChunks)

SpecLaunch == InitLaunchIdle /\ [][NextLaunch]_vars

\* ------------------------------------------------------------ teardown
\* What stopSession has done, one entry each: a condition it tested ("test"),
\* a command it sent to the backend ("cmd"), the resolution of its
\* waitPromise ("resolved"), the end of a command it awaited ("reply"), the
\* call of gdbServer.kill ("kill").
Stopping(t, name, ok) == [t |-> t, name |-> name, ok |-> ok]

\* Lines 508-519: after the pause, the detach when the backend runs, the
\* exit otherwise.
Detach(done) ==
    IF gdbAlive
    THEN /\ tlog' = done \o <<Stopping("test", "gdb.isRunning", TRUE),
                              Stopping("cmd", "sendTargetDetach", TRUE)>>
         /\ tpc' = "detach"
    ELSE /\ tlog' = done \o <<Stopping("test", "gdb.isRunning", FALSE),
                              Stopping("cmd", "sendGDBExit", TRUE)>>
         /\ tpc' = "exit"

\* Lines 506-513: stopSession is called; a running target is interrupted
\* and waited for.
StopSession ==
    /\ tpc \in {"idle", "done"}
    /\ IF isRunning
       THEN /\ waitPaused' = "stopSession"
            /\ stopResolved' = FALSE
            /\ tlog' = <<Stopping("test", "isRunning", TRUE),
                         Stopping("cmd", "pause", TRUE)>>
            /\ tpc' = "waitPaused"
       ELSE /\ Detach(<<Stopping("test", "isRunning", FALSE)>>)
            /\ UNCHANGED <<waitPaused, stopResolved>>
    /\ lastStop' = NoStop
    /\ UNCHANGED <<isRunning, logPointMessages, backend, frame, log, hadLog,
                   others, gdbAlive>>

\* Line 512: waitPromise is resolved and stopSession goes on.
StopSessionPaused ==
    /\ tpc = "waitPaused"
    /\ stopResolved
    /\ Detach(Append(tlog, Stopping("resolved", "waitPaused", TRUE)))
    /\ lastStop' = NoStop
    /\ UNCHANGED <<session, backend, frame, log, hadLog, others, stopResolved,
                   gdbAlive>>

\* A failure that is thrown on.
SwallowedNot(ok) == ok

\* Lines 517-521 and 525-529: the catch blocks are empty.
Swallowed(ok) == TRUE

\* Lines 517-527: the detach ends, well or not, and the exit is sent.
DetachReply(ok) ==
    /\ tpc = "detach"
    /\ IF Swallowed(ok)
       THEN /\ tlog' = tlog \o <<Stopping("reply", "sendTargetDetach", ok),
                                 Stopping("cmd", "sendGDBExit", TRUE)>>
            /\ tpc' = "exit"
       ELSE /\ tlog' = Append(tlog, Stopping("reply", "sendTargetDetach", ok))
            /\ tpc' = "done"
    /\ lastStop' = NoStop
    /\ UNCHANGED <<session, backend, frame, log, hadLog, others, stopResolved,
                   gdbAlive>>

\* Lines 525-530: the exit ends, well or not, and the server is killed.  A
\* backend that took the exit runs no more.
ExitReply(ok) ==
    /\ tpc = "exit"
    /\ IF Swallowed(ok)
       THEN /\ tlog' = tlog \o <<Stopping("reply", "sendGDBExit", ok),
                                 Stopping("kill", "gdbServer.kill", TRUE)>>
            /\ kill
            /\ heard' = Listeners(slog'.emitted)
       ELSE /\ tlog' = Append(tlog, Stopping("reply", "sendGDBExit", ok))
            /\ UNCHANGED <<server, heard>>
    /\ tpc' = "done"
    /\ gdbAlive' = (gdbAlive /\ ~ok)
    /\ lastStop' = NoStop
    /\ UNCHANGED <<session, backend, frame, log, hadLog, inspection, lpc, llog,
                   stopResolved>>

\* What a disconnect request is given and what it sends to the front end.
Disconnect(restart) == [t |-> "request", name |-> "disconnect", restart |-> restart]

\* Lines 349-352: the TerminatedEvent unless a restart is asked for, then the
\* response.
DisconnectSent(restart) ==
    (IF restart THEN <<>> ELSE <<Stopping("event", "TerminatedEvent", TRUE)>>)
        \o <<Stopping("response", "disconnect", TRUE)>>

\* Lines 346-356: stopSession is called and its promise is dropped, so the
\* handler goes on as soon as stopSession reaches its first await (line
\* 512, 516 or 525): it sends the event and the response while the teardown
\* waits there.  stopSession is an async function, so nothing is thrown
\* into the handler's catch block.
DisconnectRequest(restart) ==
    /\ tpc \in {"idle", "done"}
    /\ IF isRunning
       THEN /\ waitPaused' = "stopSession"
            /\ stopResolved' = FALSE
            /\ tlog' = <<Disconnect(restart),
                         Stopping("test", "isRunning", TRUE),
                         Stopping("cmd", "pause", TRUE)>> \o DisconnectSent(restart)
            /\ tpc' = "waitPaused"
       ELSE /\ IF gdbAlive
               THEN /\ tlog' = <<Disconnect(restart),
                                 Stopping("test", "isRunning", FALSE),
                                 Stopping("test", "gdb.isRunning", TRUE),
                                 Stopping("cmd", "sendTargetDetach", TRUE)>>
                                    \o DisconnectSent(restart)
                    /\ tpc' = "detach"
               ELSE /\ tlog' = <<Disconnect(restart),
                                 Stopping("test", "isRunning", FALSE),
                                 Stopping("test", "gdb.isRunning", FALSE),
                                 Stopping("cmd", "sendGDBExit", TRUE)>>
                                    \o DisconnectSent(restart)
                    /\ tpc' = "exit"
            /\ UNCHANGED <<waitPaused, stopResolved>>
    /\ lastStop' = NoStop
    /\ UNCHANGED <<isRunning, logPointMessages, backend, frame, log, hadLog,
                   others, gdbAlive>>

\* Where the launch has sent the InitializedEvent (line 427).
Initialized == {i \in 1..Len(llog) : llog[i] = InitializedEvent}

\* The stops of a target without breakpoints.
TeardownStops ==
    StopResultsOf({<<"1">>}, {"all"}, {"SIGINT"}) \ 
        {r \in StopResultsOf({<<"1">>}, {"all"}, {"SIGINT"}) :
            r.reason \in {"breakpoint-hit", "function-finished", "watchpoint-trigger",
                          "exited-normally"}}

\* A session that is launched, runs its target and is torn down; the
\* backend reports the target while it runs.
NextTeardown ==
    \/ Launching({"launch"}, {FALSE}, {TRUE}, {50000})
    \/ Heard(spawnProcess(FALSE, TRUE))
    \/ Heard(onStderr(<<"r", "\n">>, TRUE) /\ errBuffer = <<>>)
    \/ Heard(onExit(ExitCode("null", 0), "SIGINT", TRUE))
    \/ (Initialized /= {} /\ gdbAlive /\ ConfigurationDoneRequest)
    \/ \E ok \in BOOLEAN : gdbAlive /\ ConfigurationDoneReply(ok)
    \/ (gdbAlive /\ GDBRunning)
    \/ \E r \in TeardownStops : gdbAlive /\ GDBStopped(r)
    \/ StopSession
    \/ StopSessionPaused
    \/ \E ok \in BOOLEAN : DetachReply(ok)
    \/ \E ok \in BOOLEAN : ExitReply(ok)

SpecTeardown == InitLaunchIdle /\ [][NextTeardown]_vars

\* A session that is launched, runs its target and is ended by disconnect
\* requests.
NextDisconnect ==
    \/ Launching({"launch"}, {FALSE}, {TRUE}, {50000})
    \/ Heard(spawnProcess(FALSE, TRUE))
    \/ Heard(onStderr(<<"r", "\n">>, TRUE) /\ errBuffer = <<>>)
    \/ Heard(onExit(ExitCode("null", 0), "SIGINT", TRUE))
    \/ (Initialized /= {} /\ gdbAlive /\ ConfigurationDoneRequest)
    \/ \E ok \in BOOLEAN : gdbAlive /\ ConfigurationDoneReply(ok)
    \/ (gdbAlive /\ GDBRunning)
    \/ \E r \in TeardownStops : gdbAlive /\ GDBStopped(r)
    \/ \E restart \in BOOLEAN : DisconnectRequest(restart)
    \/ StopSessionPaused
    \/ \E ok \in BOOLEAN : DetachReply(ok)
    \/ \E ok \in BOOLEAN : ExitReply(ok)

SpecDisconnect == InitLaunchIdle /\ [][NextDisconnect]_vars

\* ------------------------------------------------------------ pending pause
\* A session whose target runs and stops, with set-breakpoints requests
\* and a teardown that may start while a request waits for the stop.
NextPause ==
    \/ \E breakpoints \in SeqsUpTo(SessionEntries, 1) :
          /\ nextId + Len(breakpoints) - 1 <= MaxId
          /\ SetBreakPointsRequest("a.c", breakpoints)
    \/ AwaitPaused
    \/ BreakListReply(TRUE)
    \/ BreakInsertReply(TRUE)
    \/ BreakDeleteReply(TRUE)
    \/ ConfigurationDoneRequest
    \/ \E ok \in BOOLEAN : ConfigurationDoneReply(ok)
    \/ GDBRunning
    \/ \E resultData \in SessionStops : GDBStopped(resultData)
    \/ tpc = "idle" /\ StopSession
    \/ StopSessionPaused
    \/ \E ok \in BOOLEAN : DetachReply(ok)
    \/ \E ok \in BOOLEAN : ExitReply(ok)

SpecPause == Init /\ [][NextPause]_vars

\* ------------------------------------------------------------ two waits for one stop
\* A set-breakpoints request and a teardown on a target that the interrupt
\* stops with signal-received, every backend command answered.
NextBoth ==
    \/ \E breakpoints \in SeqsUpTo(SessionEntries, 1) :
          /\ nextId + Len(breakpoints) - 1 <= MaxId
          /\ SetBreakPointsRequest("a.c", breakpoints)
    \/ AwaitPaused
    \/ \E ok \in BOOLEAN : BreakListReply(ok)
    \/ \E ok \in BOOLEAN : BreakInsertReply(ok)
    \/ \E ok \in BOOLEAN : BreakDeleteReply(ok)
    \/ ConfigurationDoneRequest
    \/ \E ok \in BOOLEAN : ConfigurationDoneReply(ok)
    \/ GDBRunning
    \/ \E resultData \in InterruptStops : GDBStopped(resultData)
    \/ tpc = "idle" /\ StopSession
    \/ StopSessionPaused
    \/ \E ok \in BOOLEAN : DetachReply(ok)
    \/ \E ok \in BOOLEAN : ExitReply(ok)

\* Continuations of resolved waits are run, the backend answers every
\* command and reports a resumed target running and a running target
\* stopped.
FairBoth ==
    /\ WF_vars(AwaitPaused)
    /\ WF_vars(\E ok \in BOOLEAN : BreakListReply(ok))
    /\ WF_vars(\E ok \in BOOLEAN : BreakInsertReply(ok))
    /\ WF_vars(\E ok \in BOOLEAN : BreakDeleteReply(ok))
    /\ WF_vars(\E ok \in BOOLEAN : ConfigurationDoneReply(ok))
    /\ WF_vars(GDBRunning)
    /\ WF_vars(\E resultData \in InterruptStops : GDBStopped(resultData))
    /\ WF_vars(StopSessionPaused)
    /\ WF_vars(\E ok \in BOOLEAN : DetachReply(ok))
    /\ WF_vars(\E ok \in BOOLEAN : ExitReply(ok))

SpecBoth == Init /\ [][NextBoth]_vars /\ FairBoth

\* ------------------------------------------------------------ properties
\* The request has run to its end.
Done == pc = "idle" /\ log /= <<>>

Issued(name) == {i \in 1..Len(log) : log[i].t = "cmd" /\ log[i].name = name}

Responses(name) == {i \in 1..Len(log) : log[i].t = "response" /\ log[i].name = name}

Diagnostics == {i \in 1..Len(log) : log[i].t = "event" /\ log[i].name = "output"}

\* An absent and an empty condition are the same condition.
SameCondition(c, d) == (IF c = "" THEN Undefined ELSE c) = (IF d = "" THEN Undefined ELSE d)

\* The rows of a table that lie in a file.
RowsOf(table, file) == {i \in 1..Len(table) : table[i].fullname = file}

\* No two desired entries have the same line and the same condition.
DistinctDesired ==
    \A j, k \in 1..Len(args.breakpoints) :
       (/\ args.breakpoints[j].line = args.breakpoints[k].line
        /\ SameCondition(args.breakpoints[j].condition, args.breakpoints[k].condition))
       => j = k

\* C1: after a reconciliation whose commands all succeeded (stated here for
\* desired entries that differ pairwise in line or condition), the file's
\* installed breakpoints are the desired ones: as many installed rows with a
\* given line and condition as there are desired entries with them, and no
\* installed row of the file that is not desired.
C1_Synchronized ==
    (Done /\ Responses("success") /= {} /\ DistinctDesired) =>
        /\ \A j \in 1..Len(args.breakpoints) :
              Cardinality({i \in RowsOf(installed, args.file) :
                              /\ installed[i].line = args.breakpoints[j].line
                              /\ SameCondition(installed[i].cond,
                                               args.breakpoints[j].condition)})
              = Cardinality({k \in 1..Len(args.breakpoints) :
                              /\ args.breakpoints[k].line = args.breakpoints[j].line
                              /\ SameCondition(args.breakpoints[k].condition,
                                               args.breakpoints[j].condition)})
        /\ \A i \in RowsOf(installed, args.file) :
              \E j \in 1..Len(args.breakpoints) :
                 /\ installed[i].line = args.breakpoints[j].line
                 /\ SameCondition(installed[i].cond, args.breakpoints[j].condition)

\* The create-breakpoint and batch-delete commands of the request, in order.
Creates == SelectSeq(log, LAMBDA x : x.t = "cmd" /\ x.name = "break-insert")

BatchDeletes == SelectSeq(log, LAMBDA x : x.t = "cmd" /\ x.name = "break-delete")

Commands == SelectSeq(log, LAMBDA x : x.t = "cmd")

\* The numbers of the listed rows of the file whose line no desired entry has.
StaleIds ==
    {result[i].number : i \in {r \in RowsOf(result, args.file) :
        \A j \in 1..Len(args.breakpoints) : args.breakpoints[j].line /= result[r].line}}

\* The desired entries whose line no listed row of the file has.
FreshEntries ==
    SelectSeq(args.breakpoints,
              LAMBDA e : \A i \in RowsOf(result, args.file) : result[i].line /= e.line)

\* C2: for breakpoints without conditions, one reconciliation deletes
\* exactly the listed rows of the file whose line is not desired (in one
\* batch), creates exactly the desired entries whose line is not listed,
\* issues no other command than break-list, and leaves every other row,
\* those of other files included, in the table as it was.
C2_LineDiff ==
    /\ Done =>
          /\ Len(Creates) = Len(FreshEntries)
          /\ \A j \in 1..Len(Creates) :
                /\ Creates[j].file = args.file
                /\ Creates[j].line = FreshEntries[j].line
          /\ IF StaleIds = {} THEN BatchDeletes = <<>>
             ELSE /\ Len(BatchDeletes) = 1
                  /\ {BatchDeletes[1].ids[k] : k \in 1..Len(BatchDeletes[1].ids)} = StaleIds
                  /\ Len(BatchDeletes[1].ids) = Cardinality(StaleIds)
          /\ Len(Commands) = 1 + Len(Creates) + Len(BatchDeletes)
          /\ Len(installed) = Len(result) - Cardinality(StaleIds) + Len(FreshEntries)
          /\ \A i \in 1..Len(result) :
                result[i].number \notin StaleIds =>
                   \E k \in 1..Len(installed) : installed[k] = result[i]
    /\ \A i \in 1..Len(result) :
          result[i].fullname /= args.file =>
             \E k \in 1..Len(installed) : installed[k] = result[i]

\* The spec's example: desired lines 10 and 20 against installed lines 10
\* and 15 ends with one create (line 20) and one delete (the line-15 row).
C2_Example ==
    /\ Done
    /\ args.file = "a.c"
    /\ Len(args.breakpoints) = 2
    /\ args.breakpoints[1].line = 10 /\ args.breakpoints[2].line = 20
    /\ Len(result) = 2
    /\ result[1].fullname = "a.c" /\ result[1].line = 10
    /\ result[2].fullname = "a.c" /\ result[2].line = 15
    /\ Len(Creates) = 1 /\ Creates[1].line = 20
    /\ Len(BatchDeletes) = 1 /\ BatchDeletes[1].ids = <<2>>
    /\ Len(Commands) = 3
    /\ \E k \in 1..Len(installed) : installed[k] = result[1]

\* The desired entries and the listed rows of the file have the same lines
\* and conditions.
SameBreakpoints ==
    /\ \A j \in 1..Len(args.breakpoints) :
          \E i \in RowsOf(result, args.file) :
             /\ result[i].line = args.breakpoints[j].line
             /\ SameCondition(result[i].cond, args.breakpoints[j].condition)
    /\ \A i \in RowsOf(result, args.file) :
          \E j \in 1..Len(args.breakpoints) :
             /\ result[i].line = args.breakpoints[j].line
             /\ SameCondition(result[i].cond, args.breakpoints[j].condition)

\* C3: when the desired set equals the installed set of the file, the
\* reconciliation issues no create and no delete command, and its response
\* lists a verified breakpoint for every desired entry, each of them an
\* installed row with the entry's line and condition.
C3_NoCommands ==
    (log /= <<>> /\ pc /= "breakList" /\ SameBreakpoints) =>
        /\ Issued("break-insert") = {}
        /\ Issued("break-delete") = {}
        /\ Done =>
              /\ Responses("error") = {}
              /\ Cardinality(Responses("success")) = 1
              /\ LET body == log[CHOOSE i \in Responses("success") : TRUE].body
                 IN  /\ Len(body) = Len(args.breakpoints)
                     /\ \A k \in 1..Len(body) : body[k].verified
                     /\ \A j \in 1..Len(args.breakpoints) :
                           \E k \in 1..Len(body), i \in RowsOf(result, args.file) :
                              /\ body[k].id = result[i].number
                              /\ body[k].line = args.breakpoints[j].line
                              /\ result[i].line = args.breakpoints[j].line
                              /\ SameCondition(result[i].cond,
                                               args.breakpoints[j].condition)

\* Two desired breakpoints equal to the two installed ones, one of them with
\* an empty condition where the installed row has none.
C3_Witness ==
    /\ Done
    /\ SameBreakpoints
    /\ Len(args.breakpoints) = 2
    /\ Len(result) = 2
    /\ \E j \in 1..2, i \in 1..2 :
          /\ args.breakpoints[j].condition = ""
          /\ result[i].line = args.breakpoints[j].line
          /\ result[i].cond = Undefined
    /\ \E j \in 1..2 : args.breakpoints[j].condition = "x > 0"
    /\ Responses("success") /= {}

\* ------------------------------------------------------------ hit conditions
\* A bare count: decimal digits only.
IsCount(s) == Len(s) > 0 /\ \A i \in 1..Len(s) : s[i] \in Digits

\* A ">"-prefixed count: ">", optional blanks, decimal digits.
IsGtCount(s) ==
    /\ Len(s) >= 2
    /\ s[1] = ">"
    /\ \E k \in 2..Len(s) :
          /\ \A i \in 2..(k - 1) : s[i] = " "
          /\ \A i \in k..Len(s) : s[i] \in Digits

RECURSIVE Decimal(_)
\* The number a string of decimal digits denotes.
Decimal(s) ==
    IF s = <<>> THEN 0
    ELSE 10 * Decimal(SubSeq(s, 1, Len(s) - 1)) + DigitVal(s[Len(s)])

CountOf(s) == Decimal(SelectSeq(s, LAMBDA c : c \in Digits))

\* The desired entries no listed row of the file matches by line and
\* condition, in request order.
Unmatched ==
    SelectSeq(args.breakpoints,
              LAMBDA e : \A i \in RowsOf(result, args.file) :
                            ~(/\ result[i].line = e.line
                              /\ SameCondition(result[i].cond, e.condition)))

\* What the insert loop did, entry by entry: a create command or a
\* diagnostic output.
LoopSteps ==
    SelectSeq(log, LAMBDA x : \/ (x.t = "cmd" /\ x.name = "break-insert")
                             \/ (x.t = "event" /\ x.name = "output"))

\* The rows the backend added during the request.
NewRows == SelectSeq(installed, LAMBDA r : r.number > Len(result))

\* C4: every unmatched desired entry gets one step of the loop, decided by
\* its hit condition: none installs a persistent breakpoint without ignore
\* count, a bare count a temporary one, a ">"-prefixed count a persistent
\* one with the count as ignore count, and "abc" installs nothing and gives
\* one diagnostic output; the backend holds one new row per create command.
C4_HitCondition ==
    Done =>
      /\ Len(LoopSteps) = Len(Unmatched)
      /\ \A j \in 1..Len(Unmatched) :
            LET e == Unmatched[j]
                x == LoopSteps[j]
                created == x.t = "cmd" /\ x.line = e.line
            IN  /\ ~e.hasHit => (created /\ ~x.temporary /\ ~x.hasIgnore)
                /\ (e.hasHit /\ IsCount(e.hitCondition)) => (created /\ x.temporary)
                /\ (e.hasHit /\ IsGtCount(e.hitCondition)) =>
                      /\ created
                      /\ ~x.temporary
                      /\ x.hasIgnore
                      /\ x.ignoreCount = CountOf(e.hitCondition)
                /\ (e.hasHit /\ e.hitCondition = <<"a", "b", "c">>) =>
                      (x.t = "event" /\ x.hit = e.hitCondition)
      /\ Len(NewRows) = Len(Creates)
      /\ \A j \in 1..Len(Creates) :
            /\ NewRows[j].temporary = Creates[j].temporary
            /\ NewRows[j].hasIgnore = Creates[j].hasIgnore
            /\ NewRows[j].ignore = Creates[j].ignoreCount
            /\ NewRows[j].line = Creates[j].line

\* "> 3" on line 10 and "abc" on line 20, nothing installed: one persistent
\* breakpoint with ignore count 3 and one diagnostic.
C4_Witness ==
    /\ Done
    /\ result = <<>>
    /\ Len(args.breakpoints) = 2
    /\ args.breakpoints[1].hasHit
    /\ args.breakpoints[1].hitCondition = <<">", " ", "3">>
    /\ args.breakpoints[2].hitCondition = <<"a", "b", "c">>
    /\ Len(installed) = 1
    /\ ~installed[1].temporary /\ installed[1].hasIgnore /\ installed[1].ignore = 3
    /\ Cardinality(Diagnostics) = 1

\* A bare count on line 10, nothing installed: one temporary breakpoint.
C4_WitnessCount ==
    /\ Done
    /\ result = <<>>
    /\ Len(args.breakpoints) = 1
    /\ args.breakpoints[1].hasHit
    /\ args.breakpoints[1].hitCondition = <<"3">>
    /\ Len(installed) = 1
    /\ installed[1].temporary

\* The hit condition without its blanks.
Unblank(s) == SelectSeq(s, LAMBDA c : c /= " ")

\* The accepted forms, blanks apart: a count, or ">" and a count.
Accepted(s) ==
    \/ IsCount(Unblank(s))
    \/ (Len(Unblank(s)) >= 2 /\ Unblank(s)[1] = ">" /\ IsCount(Tail(Unblank(s))))

\* C5: an unmatched entry whose hit condition is neither a count nor a
\* ">"-prefixed count gets a diagnostic output and no create command.
C5_OtherFormsSkipped ==
    Done =>
      /\ Len(LoopSteps) = Len(Unmatched)
      /\ \A j \in 1..Len(Unmatched) :
            (Unmatched[j].hasHit /\ ~Accepted(Unmatched[j].hitCondition)) =>
               /\ LoopSteps[j].t = "event"
               /\ LoopSteps[j].hit = Unmatched[j].hitCondition

\* ------------------------------------------------------------ pause and resume
\* C6: a request that arrives on a running target issues the interrupt and
\* nothing else until a signal-received notification has resolved its wait,
\* and only then break-list; a request on a stopped target issues no
\* interrupt.
C6_PauseFirst ==
    /\ [](pc = "waitPaused" => log = <<CmdInterrupt>>)
    /\ [](Issued("interrupt") \subseteq {1})
    /\ [][(pc = "idle" /\ pc' /= "idle") =>
             IF isRunning
             THEN pc' = "waitPaused" /\ log' = <<CmdInterrupt>>
             ELSE pc' /= "waitPaused" /\ log' = <<CmdBreakList>>]_vars
    /\ [][(pc = "waitPaused" /\ log' /= log) =>
             (pauseResolved /\ log' = <<CmdInterrupt, CmdBreakList>>)]_vars
    /\ [][(~pauseResolved /\ pauseResolved') =>
             /\ pc = "waitPaused"
             /\ lastStop'.fired
             /\ lastStop'.result.reason = "signal-received"]_vars

\* The request has interrupted the target, the stop has been handled and
\* break-list is on its way.
C6_Witness ==
    /\ pc = "breakList"
    /\ pauseResolved
    /\ log = <<CmdInterrupt, CmdBreakList>>

\* C7: a request that interrupted the target ends with exactly one resume
\* command, issued after its response (success or error) as the last thing
\* it does and without a wait for the reply; a request that did not
\* interrupt issues none; no resume is issued while the request is running.
C7_ResumeOnce ==
    /\ pc /= "idle" => Issued("exec-continue") = {}
    /\ Done =>
          IF Issued("interrupt") /= {}
          THEN /\ Issued("exec-continue") = {Len(log)}
               /\ log[Len(log) - 1].t = "response"
               /\ Cardinality(Responses("success") \cup Responses("error")) = 1
          ELSE Issued("exec-continue") = {}

\* A request that interrupted the target, created a breakpoint and then
\* failed: the error response is followed by the resume.
C7_Witness ==
    /\ Done
    /\ Issued("interrupt") /= {}
    /\ Issued("break-insert") /= {}
    /\ Responses("error") /= {}
    /\ log[Len(log)] = CmdContinue

\* ------------------------------------------------------------ stop classification
\* C8: a breakpoint-hit whose number has a registered log message emits
\* that message as its only event, no stop event, and issues exactly one
\* resume; one without a message emits one stop event of kind 'breakpoint'
\* and issues no resume.
C8_LogPointHit ==
    (lastStop.fired /\ lastStop.result.reason = "breakpoint-hit") =>
        IF \E e \in logPointMessages : e.id = lastStop.result.bkptno
        THEN /\ Len(lastStop.events) = 1
             /\ lastStop.events[1].kind = "output"
             /\ [id |-> lastStop.result.bkptno, msg |-> lastStop.events[1].text]
                   \in logPointMessages
             /\ lastStop.resumes = 1
             /\ contPending
        ELSE /\ Len(lastStop.events) = 1
             /\ lastStop.events[1].kind = "stopped"
             /\ lastStop.events[1].text = "breakpoint"
             /\ lastStop.resumes = 0

\* A log point has been hit.
C8_Witness ==
    /\ lastStop.fired
    /\ lastStop.result.reason = "breakpoint-hit"
    /\ \E e \in logPointMessages : e.id = lastStop.result.bkptno
    /\ lastStop.events[1].kind = "output"

\* C9: every notification yields exactly one front-end event, chosen by its
\* reason: terminated for exited and exited-normally, a stop of kind 'step'
\* for end-stepping-range and function-finished, a stop of the signal's name
\* ('signal' without one) for signal-received, a stop of kind 'generic' for
\* every reason the classifier does not name (breakpoint-hit is C8's); every
\* stop event carries the notification's thread id, and allThreadsStopped
\* exactly when stopped-threads is 'all'.
C9_Dispatch ==
    lastStop.fired =>
        LET r == lastStop.result
            ev == lastStop.events
        IN  /\ Len(ev) = 1
            /\ CASE r.reason \in {"exited", "exited-normally"} ->
                      ev[1].kind = "terminated"
                 [] r.reason \in {"end-stepping-range", "function-finished"} ->
                      ev[1].kind = "stopped" /\ ev[1].text = "step"
                 [] r.reason = "signal-received" ->
                      /\ ev[1].kind = "stopped"
                      /\ ev[1].text = IF r.signalName \in {Undefined, ""}
                                      THEN "signal" ELSE r.signalName
                 [] r.reason = "breakpoint-hit" ->
                      ev[1].kind \in {"stopped", "output"}
                 [] OTHER ->
                      ev[1].kind = "stopped" /\ ev[1].text = "generic"
            /\ ev[1].kind = "stopped" =>
                  /\ ~ev[1].threadId.nan
                  /\ ev[1].threadId.val = Decimal(r.threadId)
                  /\ ev[1].allThreadsStopped = (r.stoppedThreads = "all")

\* A named signal on thread 12 with only some threads stopped.
C9_Witness ==
    /\ lastStop.fired
    /\ lastStop.result.reason = "signal-received"
    /\ lastStop.result.signalName = "SIGINT"
    /\ lastStop.result.threadId = <<"1", "2">>
    /\ lastStop.result.stoppedThreads = "1"
    /\ lastStop.events = <<StoppedEvent("SIGINT", [nan |-> FALSE, val |-> 12], FALSE)>>

\* ------------------------------------------------------------ log points
\* The request is past its reset of the log point table.
PastReset == log /= <<>> /\ pc /= "waitPaused"

\* The file of the installed row with a number.
FileOf(number) ==
    LET rows == {i \in 1..Len(installed) : installed[i].number = number}
    IN  IF rows = {} THEN "" ELSE installed[CHOOSE i \in rows : TRUE].fullname

\* C10: once a request has reset the log point table, the table holds only
\* messages that this request registered (for a breakpoint of its response,
\* from a desired entry on that line), whatever earlier requests registered
\* for this or another file; so a breakpoint-hit on a breakpoint of another
\* file then gives a stop event of kind 'breakpoint' and no resume.
C10_LogPointsReset ==
    /\ PastReset =>
          \A e \in logPointMessages :
             \E k \in 1..Len(actual), j \in 1..Len(args.breakpoints) :
                /\ actual[k].id = e.id
                /\ args.breakpoints[j].line = actual[k].line
                /\ args.breakpoints[j].logMessage = e.msg
    /\ (/\ PastReset
        /\ lastStop.fired
        /\ lastStop.result.reason = "breakpoint-hit"
        /\ FileOf(lastStop.result.bkptno) /= args.file) =>
          /\ Len(lastStop.events) = 1
          /\ lastStop.events[1].kind = "stopped"
          /\ lastStop.events[1].text = "breakpoint"
          /\ lastStop.resumes = 0

\* A breakpoint of a.c that once had a log message is hit after a request
\* for b.c: the session reports a stop.
C10_Witness ==
    /\ Done
    /\ args.file = "b.c"
    /\ lastStop.fired
    /\ lastStop.result.reason = "breakpoint-hit"
    /\ lastStop.result.bkptno \in hadLog
    /\ FileOf(lastStop.result.bkptno) = "a.c"
    /\ lastStop.events[1].kind = "stopped"
    /\ lastStop.events[1].text = "breakpoint"

\* ------------------------------------------------------------ handles and scopes
\* The handles variableHandles has handed out in this behaviour.
HandedOut == DOMAIN variableHandles.map

\* C11: every handle handed out by the handle table (to a Local scope or to
\* an expandable variable) differs from GLOBAL_HANDLE_ID and from every
\* value of the static range, no handle is handed out twice, and the next
\* handle lies above every handle handed out (monotonic, never reused).
C11_HandlesDisjoint ==
    /\ \A h \in HandedOut : h /= GLOBAL_HANDLE_ID /\ ~InStaticRange(h)
    /\ \A h \in HandedOut : h < variableHandles.next
    /\ Cardinality(HandedOut) = variableHandles.next - variableHandles.earlier

VRequested(name) == Len(vlog) > 0 /\ vlog[1].t = "request" /\ vlog[1].name = name

\* The responses of the request in progress or last served.
VResponses == SelectSeq(vlog, LAMBDA x : x.t = "response")

\* C12: a scopes request returns exactly three scopes, Local with the
\* handle just handed out for the frame, Global with 0xFE and Static with
\* STATIC_HANDLES_START + frameId, in this order; and a variables request on
\* the Static reference of a frame id below 0x10000 is served as the Statics
\* of exactly that frame id.
C12_ScopesStatic ==
    /\ VRequested("scopes") =>
          /\ Len(vlog) = 2 /\ vlog[2].name = "scopes"
          /\ LET sc == vlog[2].scopes
                 frameId == vlog[1].reference
             IN  /\ Len(sc) = 3
                 /\ sc[1].name = "Local" /\ sc[2].name = "Global" /\ sc[3].name = "Static"
                 /\ sc[1].variablesReference = variableHandles.next - 1
                 /\ sc[1].variablesReference \in HandedOut
                 /\ variableHandles.map[sc[1].variablesReference] =
                        FrameVariableReference(frameId)
                 /\ sc[2].variablesReference = 254
                 /\ sc[3].variablesReference = 65536 + frameId
    /\ \A f \in FrameIds :
          (f < 65536 /\ VRequested("variables") /\ vlog[1].reference = 65536 + f) =>
             /\ Len(vlog) >= 2
             /\ \/ vlog[2] = VariablesError("static", f)
                \/ /\ vlog[2].name = "stack-info-frame"
                   /\ HandlesGet(frameHandles, f) = StackFrame(vlog[2].threadId,
                                                               vlog[2].frameId)
             /\ \A i \in 1..Len(VResponses) :
                   VResponses[i].served = "static" /\ VResponses[i].servedFrame = f

\* A scopes request of frame 1001, then the variables request on its Static
\* reference, answered with the static variable of the frame's file.
C12_Witness ==
    /\ VRequested("variables") /\ vlog[1].reference = 65536 + 1001
    /\ Len(VResponses) = 1
    /\ VResponses[1].name = "variables" /\ VResponses[1].served = "static"
    /\ Len(VResponses[1].variables) = 1
    /\ \E h \in HandedOut : variableHandles.map[h] = FrameVariableReference(1001)

\* The last frame id of the static range is served as such.
C12_WitnessLast ==
    /\ VRequested("variables") /\ vlog[1].reference = 131071
    /\ Len(VResponses) = 1 /\ VResponses[1].served = "static"
    /\ VResponses[1].servedFrame = 65535

\* ------------------------------------------------------------ tracked variables
\* The create and update commands of the request in progress or last served.
VarCommands ==
    SelectSeq(vlog, LAMBDA x : x.t = "cmd" /\ x.name \in {"var-create", "var-update"})

Resolving == vreq.pc \in {"varCreate", "varUpdate"}

ResolvingKey ==
    VarKey(vreq.frame.frameId, vreq.frame.threadId, vreq.depth, vreq.name)

\* C13: a create command is issued only for a (frame, depth, name) that no
\* earlier resolution created; once it is created, a resolution of the same
\* (frame, depth, name) issues an update command and no create command; and
\* every resolution issues exactly one backend command, create or update.
C13_CreateOnce ==
    /\ Resolving =>
          /\ Len(VarCommands) = Len(vreq.variables) + 1
          /\ LET cmd == VarCommands[Len(VarCommands)]
             IN  /\ cmd = vlog[Len(vlog)]
                 /\ cmd.varname = vreq.name
                 /\ cmd.name = IF ResolvingKey \in varobjs THEN "var-update"
                               ELSE "var-create"
    /\ (/\ vreq.pc = "idle" /\ VRequested("variables") /\ Len(VResponses) = 1
        /\ VResponses[1].served \in {"global", "static"}) =>
          IF VResponses[1].name = "variables"
          THEN Len(VarCommands) = Len(VResponses[1].variables)
          ELSE Len(VarCommands) <= Len(GlobalSymbols)

\* The second resolution of a global variable: its cache entry exists and
\* the one command of the resolution is the update.
C13_Witness ==
    /\ vreq.pc = "varUpdate" /\ vreq.kind = "global"
    /\ ResolvingKey \in varobjs
    /\ Len(vreq.variables) = 0
    /\ Len(VarCommands) = 1 /\ VarCommands[1] = CmdVarUpdate(GlobalName("count"))

\* ------------------------------------------------------------ server start
\* The block of output the last call of onData handed on, if any.
HandedOn == slog.op \in {"stdout", "stderr"} /\ Len(slog.emitted) > 0

\* C14: the output block that announces the start resolves the promise
\* spawn() returned and clears the timer; the promise is settled at most
\* once, and once it is resolved no later block that announces the start, no
\* timer and no process error changes it.
C14_ResolvedOnce ==
    /\ [](future.settled <= 1)
    /\ []((HandedOn /\ serverStarted(slog.emitted[1].data)) =>
             future.state \in {"resolved", "rejected"})
    /\ [](slog.settles = "resolve" => (future.state = "resolved" /\ HandedOn))
    /\ [](future.state = "resolved" =>
             (timer = "none" /\ ~launchResolve /\ ~launchReject))
    /\ [][future.state = "resolved" => future' = future]_vars

\* The start was announced and resolved the promise; a later block
\* announces it again and resolves nothing.
C14_Witness ==
    /\ future.state = "resolved" /\ future.settled = 1
    /\ HandedOn /\ serverStarted(slog.emitted[1].data)
    /\ slog.settles = ""

\* C15: the timer rejects the promise with the timeout error only while
\* nothing has settled it, and clears the resolvers, so that a later block
\* that announces the start resolves nothing; once the promise is resolved,
\* or rejected by a spawn error, the timer is cleared and never rejects it.
C15_Timeout ==
    /\ [](slog.op = "timeout" =>
             /\ slog.settles = "reject"
             /\ future = [state |-> "rejected", settled |-> 1, error |-> "timeout"]
             /\ ~launchResolve /\ ~launchReject /\ timer = "none")
    /\ [](timer = "armed" => future.state = "pending")
    /\ [](future.error = "timeout" => future.state = "rejected")
    /\ [][future.state = "rejected" => future' = future]_vars
    /\ [][timer = "none" /\ future.state /= "none" => timer' = "none"]_vars

\* The timer rejected the promise; a later block announces the start and
\* resolves nothing.
C15_Witness ==
    /\ future.state = "rejected" /\ future.error = "timeout"
    /\ HandedOn /\ serverStarted(slog.emitted[1].data)
    /\ slog.settles = ""

\* The spawn failed first: the timer is cleared with the promise rejected.
C15_WitnessError ==
    /\ future.state = "rejected" /\ future.error = "spawn"
    /\ timer = "none"

\* ------------------------------------------------------------ server exit
EventNames(did) == [i \in 1..Len(did.emitted) |-> did.emitted[i].name]

\* The exit code of the exit the last call reported.
ExitedWith ==
    LET at == CHOOSE i \in 1..Len(slog.emitted) : slog.emitted[i].name = "exit"
    IN  slog.emitted[at].code

ExitReported == slog.op = "exit" /\ "exit" \in {slog.emitted[i].name : i \in 1..Len(slog.emitted)}

\* C16 as stated: an exit with a nonzero exit code after the start emits
\* error first and exit second, each once; an exit with code 0, null or
\* undefined emits exit alone.
C16_ErrorThenExit ==
    slog.op = "exit" =>
       /\ ExitReported
       /\ (future.state = "resolved" /\ CodeTruthy(ExitedWith)) =>
             EventNames(slog) = <<"error", "exit">>
       /\ ~CodeTruthy(ExitedWith) => EventNames(slog) = <<"exit">>

\* C16 as amended: an exit with a nonzero exit code after the start emits
\* exit first and error second, each once; an exit with code 0, null or
\* undefined emits exit alone.
C16_ExitThenError ==
    slog.op = "exit" =>
       /\ ExitReported
       /\ (future.state = "resolved" /\ CodeTruthy(ExitedWith)) =>
             /\ EventNames(slog) = <<"exit", "error">>
             /\ slog.emitted[2].code = ExitedWith
       /\ ~CodeTruthy(ExitedWith) => EventNames(slog) = <<"exit">>

\* The server started and then exits with code 1.
C16_Witness ==
    /\ slog.op = "exit" /\ future.state = "resolved"
    /\ slog.emitted = <<ExitEvent(ExitCode("number", 1), ""),
                        ErrorEvent(<<>>, ExitCode("number", 1))>>

\* ------------------------------------------------------------ server output
NoNewline(text) == \A i \in 1..Len(text) : text[i] /= "\n"

DataEvents(did) == SelectSeq(did.emitted, LAMBDA e : e.name \in {"stdout", "stderr"})

\* C17 as stated: every output event carries a single line.
C17_LinePerEvent ==
    slog.op \in {"stdout", "stderr"} =>
       \A i \in 1..Len(DataEvents(slog)) : NoNewline(DataEvents(slog)[i].data)

\* What a data arrival on the stream with buffer before and after does.
Arrival(before, after, did, event) ==
    \E chunk \in ServerChunks :
       LET joined == before \o chunk
       IN  IF NoNewline(joined)
           THEN did.emitted = <<>> /\ after = joined
           ELSE /\ Len(DataEvents(did)) = 1
                /\ did.emitted[1] = DataEvent(event, DataEvents(did)[1].data)
                /\ \E rest \in SeqsUpTo({"r", "e", "\n"}, MaxBuffer) :
                      /\ NoNewline(rest)
                      /\ joined = DataEvents(did)[1].data \o <<"\n">> \o rest
                      /\ after = IF did.raised THEN joined ELSE rest

\* C17 as amended: a data arrival appends the chunk to the buffer of its own
\* stream and leaves the other buffer alone; when the buffer then holds a
\* newline, everything before its last newline is emitted as one event named
\* after the stream (a chunk with k newlines yields one event of k lines)
\* and handed to handleData once, and only the partial line after the last
\* newline stays in the buffer, unless a listener of the error event threw,
\* which leaves the whole buffer in place.
C17_BlockPerArrival ==
    [][/\ slog'.op = "stdout" =>
             (errBuffer' = errBuffer /\ Arrival(outBuffer, outBuffer', slog', "stdout"))
       /\ slog'.op = "stderr" =>
             (outBuffer' = outBuffer /\ Arrival(errBuffer, errBuffer', slog', "stderr"))
      ]_vars

\* The stdout block just emitted holds two lines, while the stderr buffer
\* holds a partial line of its own.
C17_Witness ==
    /\ slog.op = "stdout"
    /\ Len(DataEvents(slog)) = 1 /\ ~NoNewline(DataEvents(slog)[1].data)
    /\ ~slog.raised
    /\ outBuffer = <<>> /\ errBuffer = <<"e">>

\* A partial line waited in the stdout buffer for its newline: the block
\* holds it together with the chunk that ended it.
C17_WitnessPartial ==
    /\ slog.op = "stdout"
    /\ slog.emitted = <<DataEvent("stdout", <<"r", "r">>)>>
    /\ outBuffer = <<>>

C18_WitnessRunning ==
    /\ slog.op = "kill" /\ process = "running"
    /\ slog.signals = <<"SIGINT">>

\* ------------------------------------------------------------ server start failure
LaunchSent(t) == {i \in 1..Len(llog) : llog[i].t = t}

LaunchSuccesses == {i \in LaunchSent("response") : llog[i].code = 0}

LaunchErrors == {i \in LaunchSent("response") : llog[i].code = 1}

NoFreePort == \E i \in LaunchSent("port") : llog[i].code = 0

\* The start of the server was rejected, or the port scanner found no port.
StartFailed == future.state = "rejected" \/ NoFreePort

\* C19: when the promise of the server start is rejected (the start failed
\* or timed out) or no free port is found, the launch or attach request
\* sends no success response, no InitializedEvent and no command to the
\* backend, never more than one response, and once it has ended it has
\* sent exactly one error response, of code 1, as the last thing it did.
C19_StartFailure ==
    StartFailed =>
        /\ LaunchSuccesses = {}
        /\ Initialized = {}
        /\ LaunchSent("cmd") = {}
        /\ LaunchSent("spawn") = {}
        /\ Cardinality(LaunchSent("response")) <= 1
        /\ lpc = "done" =>
              /\ Cardinality(LaunchErrors) = 1
              /\ llog[Len(llog)].t = "response"
              /\ llog[Len(llog)].code = 1
              /\ llog[Len(llog)].name = llog[1].name

\* An attach request ended after the start of the server timed out.
C19_Witness ==
    /\ lpc = "done"
    /\ future.state = "rejected"
    /\ future.error = "timeout"
    /\ llog[1].name = "attach"
    /\ llog[Len(llog)] = LaunchErrorResponse("attach", "timeout")

\* A launch request ended because no port was free.
C19_WitnessPort ==
    /\ lpc = "done"
    /\ NoFreePort
    /\ llog[1].name = "launch"
    /\ Cardinality(LaunchErrors) = 1

\* ------------------------------------------------------------ teardown order
\* The steps of a teardown that found the target running or not, the
\* backend running or not, and whose detach and exit ended well or not.
TeardownSteps(running, alive, detached, exited) ==
    <<Stopping("test", "isRunning", running)>>
    \o (IF running
        THEN <<Stopping("cmd", "pause", TRUE), Stopping("resolved", "waitPaused", TRUE)>>
        ELSE <<>>)
    \o <<Stopping("test", "gdb.isRunning", alive)>>
    \o (IF alive
        THEN <<Stopping("cmd", "sendTargetDetach", TRUE),
               Stopping("reply", "sendTargetDetach", detached)>>
        ELSE <<>>)
    \o <<Stopping("cmd", "sendGDBExit", TRUE),
         Stopping("reply", "sendGDBExit", exited),
         Stopping("kill", "gdbServer.kill", TRUE)>>

IsPrefix(s, t) == Len(s) <= Len(t) /\ s = SubSeq(t, 1, Len(s))

\* stopSession waits for something.
TeardownWaits ==
    /\ tpc = "waitPaused" => tlog[Len(tlog)] = Stopping("cmd", "pause", TRUE)
    /\ tpc = "detach" => tlog[Len(tlog)] = Stopping("cmd", "sendTargetDetach", TRUE)
    /\ tpc = "exit" => tlog[Len(tlog)] = Stopping("cmd", "sendGDBExit", TRUE)

\* C20: a teardown goes through its steps in order: the interrupt and the
\* wait for the stop only when the target runs, the detach only when the
\* backend runs, then the exit of the backend, then the kill of the server;
\* a detach or an exit that fails is followed by the next step as one that
\* succeeds, and a teardown that has ended has done all of them, the kill
\* last and after the exit was attempted.
C20_TeardownOrder ==
    /\ tpc = "idle" => tlog = <<>>
    /\ tpc /= "idle" =>
          /\ \E running, alive, detached, exited \in BOOLEAN :
                /\ IsPrefix(tlog, TeardownSteps(running, alive, detached, exited))
                /\ tpc = "done" => tlog = TeardownSteps(running, alive, detached, exited)
          /\ TeardownWaits

\* A teardown of a running target has ended, its detach and its exit both
\* failed, and the server was signalled.
C20_Witness ==
    /\ tpc = "done"
    /\ tlog = TeardownSteps(TRUE, TRUE, FALSE, FALSE)
    /\ slog = Did("kill", <<>>, <<"SIGINT">>, "", FALSE)

\* A teardown that found the backend gone has ended.
C20_WitnessGone ==
    /\ tpc = "done"
    /\ tlog = TeardownSteps(FALSE, FALSE, FALSE, FALSE)

\* ------------------------------------------------------------ server errors
ErrorsRaised == SelectSeq(slog.emitted, LAMBDA e : e.name = "error")

Terminations == SelectSeq(heard, LAMBDA e : e.kind = "terminated")

\* C21: once the session runs, every error event the supervisor raises (a
\* nonzero exit code, or output that serverError matches) makes the
\* session send a TerminatedEvent to the front end: the last call of the
\* supervisor sent as many TerminatedEvents as it raised errors.
C21_ErrorTerminates ==
    lpc /= "idle" => Len(Terminations) = Len(ErrorsRaised)

\* The server wrote an error line on its standard error while the launch
\* waited for it, and the session sent a TerminatedEvent.
C21_Witness ==
    /\ lpc = "gdbServer.spawn"
    /\ slog.op = "stderr"
    /\ Len(ErrorsRaised) = 1
    /\ ErrorsRaised[1].data = <<"e">>
    /\ Len(Terminations) = 1

\* The server exited with code 1 and the session sent a TerminatedEvent.
C21_WitnessExit ==
    /\ slog.op = "exit"
    /\ Len(ErrorsRaised) = 1
    /\ Len(Terminations) = 1

\* ------------------------------------------------------------ failing commands
Failures == {i \in 1..Len(log) : log[i].t = "failed"}

VFailures == {i \in 1..Len(vlog) : vlog[i].t = "failed"}

AllResponses == {i \in 1..Len(log) : log[i].t = "response"}

AllVResponses == {i \in 1..Len(vlog) : vlog[i].t = "response"}

\* A command a request awaits has failed: the request ends by exactly one
\* response, an error response, of code 100 for configurationDone and 1 for
\* the others, sent right after the failure, and no event but output events
\* is sent.
AwaitedFailuresAnswered ==
    /\ VFailures /= {} =>
          /\ vreq.pc = "idle"
          /\ VFailures = {Len(vlog) - 1}
          /\ AllVResponses = {Len(vlog)}
          /\ vlog[Len(vlog)].name = "error"
          /\ vlog[Len(vlog)].code =
                IF vlog[1].name = "configurationDone" THEN 100 ELSE 1
          /\ vlog[1].name \in {"configurationDone", "pause", "evaluate", "variables"}
    /\ Failures /= {} =>
          /\ pc = "idle"
          /\ Cardinality(Failures) = 1
          /\ AllResponses = {i + 1 : i \in Failures}
          /\ \A i \in AllResponses : log[i].name = "error" /\ log[i].code = 1
          /\ \A i \in 1..Len(log) : log[i].t = "event" => log[i].name = "output"

\* C22: every command that fails inside a configurationDone, pause,
\* evaluate, variables or setBreakpoints request ends the request by exactly
\* one response, an error response of the code of the request, and no
\* TerminatedEvent: no command of a request fails without being answered
\* so, whether the request awaits it or not.
C22_CommandFailure ==
    /\ AwaitedFailuresAnswered
    /\ contPromise \notin {"rejected", "fatal"}

\* The failure the claim does not hold for: a set-breakpoints request on a
\* running target has sent its success response and its resume was refused.
C22_Unanswered ==
    /\ contPromise = "rejected"
    /\ pc = "idle" /\ neededPause
    /\ Failures = {}
    /\ Cardinality(AllResponses) = 1
    /\ \A i \in AllResponses : log[i].name /= "error"
    /\ log[Len(log)] = CmdContinue

\* The resume of a configurationDone request failed.
C22_Witness ==
    /\ vlog = <<Request("configurationDone", 0), CmdExecContinue, VFailed,
                [VBlank EXCEPT !.t = "response", !.name = "error", !.code = 100,
                               !.served = "configurationDone"]>>
    /\ ~contPending

\* The update of a tracked variable failed in a variables request served
\* after a reconciliation whose create command had failed on a target it
\* had interrupted.
C22_WitnessBoth ==
    /\ VFailures /= {}
    /\ vlog[1].name = "variables"
    /\ vlog[Len(vlog) - 2].name = "var-update"
    /\ Failures /= {}
    /\ neededPause
    /\ log[Len(log)] = CmdContinue
    /\ \E i \in Failures : log[i - 1].name = "break-insert"

\* The command of a pause request and of an evaluate request failed.
C22_WitnessPause ==
    /\ VFailures /= {}
    /\ vlog[1].name \in {"pause", "evaluate"}
    /\ vlog[Len(vlog)].code = 1

\* ------------------------------------------------------------ pending pause
\* The waitPromise of the set-breakpoints request, of the teardown, is
\* awaited and not resolved.
PauseOutstanding == pc = "waitPaused" /\ ~pauseResolved

StopOutstanding == tpc = "waitPaused" /\ ~stopResolved

\* C23: at most one future of a pending pause is outstanding, and it is the
\* one the session's resolver belongs to: no interrupt replaces the
\* resolver of a future that is still awaited.
C23_OnePendingPause ==
    /\ ~(PauseOutstanding /\ StopOutstanding)
    /\ PauseOutstanding => waitPaused = "setBreakpoints"
    /\ StopOutstanding => waitPaused = "stopSession"

\* ------------------------------------------------------------ reserved references
\* The entry of variableHandles under a reference, as the finished request
\* found it: the table only grows, by handles above every reference asked.
TableEntry(reference) == HandlesGet(variableHandles, reference)

\* C24: a variables request on GLOBAL_HANDLE_ID is served as the Globals
\* scope, one on a reference of the static range as the Statics scope of
\* frame (reference - STATIC_HANDLES_START), whatever the handle table holds
\* under that number; any other reference is served by its entry in the
\* handle table, a frame reference as locals and an object reference as
\* children, and a reference without an entry gets a success response with
\* an empty list of variables.
C24_ReservedReferences ==
    (VRequested("variables") /\ Len(VResponses) > 0) =>
       LET reference == vlog[1].reference
           response == VResponses[1]
       IN  /\ Len(VResponses) = 1
           /\ IF reference = 254
              THEN response.served = "global"
              ELSE IF reference >= 65536 /\ reference <= 131071
              THEN response.served = "static" /\
                   response.servedFrame = reference - 65536
              ELSE /\ response.served = TableEntry(reference).type
                   /\ TableEntry(reference).type \in {"frame", "object"} =>
                         vlog[2] = LibraryCall(TableEntry(reference))
                   /\ TableEntry(reference).type = "none" =>
                         vlog = <<Request("variables", reference),
                                  VariablesResponse("none", 0, <<>>)>>

\* The handle table handed out 65536 for the locals of a frame, and the
\* variables request on 65536 was served as the Statics of frame 0.
C24_Witness ==
    /\ VRequested("variables") /\ vlog[1].reference = 65536
    /\ TableEntry(65536).type = "frame"
    /\ Len(VResponses) = 1
    /\ VResponses[1].served = "static" /\ VResponses[1].servedFrame = 0

\* A reference above the static range that the table does not hold.
C24_WitnessAbsent ==
    /\ VRequested("variables") /\ vlog[1].reference = 131072
    /\ Len(VResponses) = 1
    /\ VResponses[1].name = "variables" /\ VResponses[1].served = "none"

\* A frame reference handed out by a scopes request, served as locals.
C24_WitnessFrame ==
    /\ VRequested("variables") /\ vlog[1].reference \in HandedOut
    /\ ~InStaticRange(vlog[1].reference)
    /\ Len(VResponses) = 1 /\ VResponses[1].served = "frame"

\* ------------------------------------------------------------ stale values
\* The reply to var-update the request has just received.
UpdateReceived ==
    /\ vreq.pc = "varUpdate"
    /\ Len(vlog') > Len(vlog)
    /\ vlog'[Len(vlog) + 1].t = "reply"

\* The variable the resolution has just returned.
Returned(req, log1) ==
    IF req.pc = "idle"
    THEN log1[Len(log1)].variables[Len(log1[Len(log1)].variables)]
    ELSE req.variables[Len(req.variables)]

\* The cache entry of the variable that is resolved.
Cached ==
    CHOOSE v \in variableMap :
        /\ v.frameId = vreq.frame.frameId /\ v.threadId = vreq.frame.threadId
        /\ v.depth = vreq.depth /\ v.expression = vreq.name

\* C25: when the tracked variable is found in the cache and its update
\* reply arrives, the cached value is overwritten by the reported value
\* only if the first change of the reply is in scope and carries the
\* cached backend name; with an empty change list, a variable out of scope
\* or another name the cache is left as it was, no entry is removed, and
\* the value returned is the old one.
C25_StaleValueKept ==
    [][UpdateReceived =>
          LET changelist == vlog'[Len(vlog) + 1].variables
              applies == /\ Len(changelist) > 0
                         /\ changelist[1].in_scope = "true"
                         /\ changelist[1].name = Cached.varname
          IN  IF applies
              THEN /\ variableMap' =
                         (variableMap \ {Cached}) \cup
                            {[Cached EXCEPT !.value = changelist[1].value]}
                   /\ Returned(vreq', vlog').value = changelist[1].value
              ELSE /\ variableMap' = variableMap
                   /\ Returned(vreq', vlog').value = Cached.value
                   /\ Returned(vreq', vlog').type = Cached.type]_vars

\* The variable count was created with value 1; its update reported value 2
\* out of scope, and the request returned 1 and kept 1 in the cache.
C25_Witness ==
    /\ vreq.pc = "idle" /\ VRequested("variables")
    /\ Len(vlog) = 6
    /\ vlog[2] = CmdVarUpdate(GlobalName("count"))
    /\ vlog[3] = VarUpdateResponse(
                     <<VarUpdateChange(GlobalName("count"), "false", "2")>>)
    /\ vlog[4].name = "var-create" /\ vlog[4].t = "cmd"
    /\ vlog[6].name = "variables"
    /\ vlog[6].variables[1].value = "1"
    /\ \E v \in variableMap : v.expression = GlobalName("count") /\ v.value = "1"

\* The update reported value 2 for another name; 1 was returned.
C25_WitnessName ==
    /\ VRequested("variables")
    /\ Len(vlog) >= 3
    /\ vlog[3] = VarUpdateResponse(<<VarUpdateChange(<<"var1">>, "true", "2")>>)
    /\ Len(vreq.variables) > 0
    /\ vreq.variables[1].value = "1"

\* The update reported value 2 in scope; 2 was returned and cached.
C25_WitnessApplied ==
    /\ VRequested("variables")
    /\ Len(vlog) >= 3
    /\ vlog[3] = VarUpdateResponse(
                     <<VarUpdateChange(GlobalName("count"), "true", "2")>>)
    /\ Len(vreq.variables) > 0
    /\ vreq.variables[1].value = "2"
    /\ \E v \in variableMap : v.expression = GlobalName("count") /\ v.value = "2"

\* ------------------------------------------------------------ returned variables
\* The reply to var-create, to var-update, has just been received and the
\* variable was returned.
ReplyReceived(name) ==
    /\ Len(vlog') > Len(vlog)
    /\ vlog'[Len(vlog) + 1].t = "reply"
    /\ vlog'[Len(vlog) + 1].name = name

\* What the backend last reported of the variable that is resolved: the
\* reply to its creation, or its cache entry after the update.
Reported ==
    IF ReplyReceived("var-create")
    THEN vlog'[Len(vlog) + 1].variables[1]
    ELSE LET e == CHOOSE v \in variableMap' :
                     /\ v.frameId = vreq.frame.frameId
                     /\ v.threadId = vreq.frame.threadId
                     /\ v.depth = vreq.depth /\ v.expression = vreq.name
         IN  VarCreateResponse(e.varname, e.value, e.type, e.numchild)

\* C26: the variable a resolution returns carries the value the backend
\* reported, "<unknown>" exactly when it reported none; its child handle is
\* 0 exactly when the reported child count is 0, and otherwise a handle
\* that was not handed out before, on a creation and on a cache hit alike,
\* which the handle table maps to the object reference of the current
\* pseudo-frame handle and the backend name of the tracked variable.
C26_ReturnedVariable ==
    [][(ReplyReceived("var-create") \/ ReplyReceived("var-update")) =>
          LET v == Returned(vreq', vlog')
              r == Reported
              h == v.variablesReference
          IN  /\ v.name = vreq.expression
              /\ (v.value = "<unknown>") <=> (r.value = Undefined)
              /\ r.value /= Undefined => v.value = r.value
              /\ (h = 0) <=> (r.numchild = <<"0">>)
              /\ h = 0 => variableHandles' = variableHandles
              /\ h /= 0 =>
                    /\ h \notin DOMAIN variableHandles.map
                    /\ h >= variableHandles.next
                    /\ h \in DOMAIN variableHandles'.map
                    /\ variableHandles'.map[h] =
                          ObjectVariableReference(globalHandle, r.name)]_vars

\* The variable count has two children and no value: its creation returned
\* handle 1000 and "<unknown>", the update of the next request handle 1001.
C26_Witness ==
    /\ VRequested("variables")
    /\ Len(vlog) >= 3
    /\ vlog[2] = CmdVarUpdate(GlobalName("count"))
    /\ Len(vreq.variables) > 0
    /\ vreq.variables[1].value = "<unknown>"
    /\ vreq.variables[1].variablesReference = 1001
    /\ HandlesGet(variableHandles, 1000) = HandlesGet(variableHandles, 1001)
    /\ HandlesGet(variableHandles, 1001) =
          ObjectVariableReference(globalHandle, GlobalName("count"))

\* A variable with a value and without children.
C26_WitnessLeaf ==
    /\ VRequested("variables")
    /\ Len(vreq.variables) > 0
    /\ vreq.variables[1].value = "1"
    /\ vreq.variables[1].variablesReference = 0

\* ------------------------------------------------------------ cache keys
\* The cache entries of the symbol, whatever its scope and file.
EntriesOf(symbol) ==
    {e \in variableMap : e.expression[Len(e.expression)] = symbol}

\* C27: a global is resolved under <<"global_var_", symbol>> at depth -1, a
\* static under <<file, "_static_var_", symbol>> at the depth the backend
\* reported; the reply to its var-create or var-update leaves every cache
\* entry of another name as it was, adds or changes only the entry of
\* this name, whose backend variable carries this name and no other
\* entry's, and the variable returned shows the value of this entry.
C27_KeysApart ==
    [][(ReplyReceived("var-create") \/ ReplyReceived("var-update")) =>
          LET v == Returned(vreq', vlog')
          IN  /\ vreq.name = IF vreq.kind = "global"
                             THEN <<"global_var_", vreq.expression>>
                             ELSE <<vreq.file, "_static_var_", vreq.expression>>
              /\ vreq.kind = "global" => vreq.depth = Number(-1)
              /\ vreq.kind = "static" => (vreq.depth.nan \/ vreq.depth.val >= 0)
              /\ \A e \in variableMap : e.expression /= vreq.name => e \in variableMap'
              /\ \A e \in variableMap' \ variableMap :
                    e.expression = vreq.name /\ e.varname = vreq.name
              /\ \A e1, e2 \in variableMap' : e1.varname = e2.varname => e1 = e2
              /\ \E e \in variableMap' :
                    /\ e.expression = vreq.name
                    /\ e.depth = vreq.depth
                    /\ v.value = e.value]_vars

\* count is cached as a global and as a static of a.c and of b.c, the two
\* statics under one frame and depth with different values, and the static
\* of b.c has just been updated and returned.
C27_Witness ==
    /\ Cardinality(EntriesOf("count")) = 3
    /\ Cardinality({e.varname : e \in EntriesOf("count")}) = 3
    /\ \E a, b \in EntriesOf("count") :
          /\ a.expression = StaticName(SourceA, "count") /\ a.value = "1"
          /\ b.expression = StaticName(SourceB, "count") /\ b.value = "2"
          /\ a.frameId = b.frameId /\ a.threadId = b.threadId /\ a.depth = b.depth
    /\ Len(vlog) = 6
    /\ vlog[4] = CmdVarUpdate(StaticName(SourceB, "count"))
    /\ vlog[6].name = "variables"
    /\ vlog[6].variables[1].value = "2"

\* ------------------------------------------------------------ pseudo frame
\* The cache entries of globals, and of statics.
GlobalEntries == {e \in variableMap : e.expression[1] = "global_var_"}

StaticEntries == variableMap \ GlobalEntries

\* Every cache entry, of a global or of a static, is filed under frame id -1
\* and thread id -1.
C28_PseudoFrameKeys ==
    \A e \in variableMap : e.frameId = -1 /\ e.threadId = -1

\* C28: every stack-trace request allocates a new frame handle for the
\* pseudo frame {threadId -1, frameId -1} and makes it the global handle;
\* Globals are resolved with this frame, so the cache entry of a global has
\* frame id -1, thread id -1 and depth -1 and there is one per global,
\* updated and never created again after later stack-trace requests;
\* Statics are resolved with the frame of the handle their reference
\* encodes, whose thread and frame id their cache entries carry.
C28_GlobalPseudoFrame ==
    /\ globalHandle /= 0 =>
          /\ HandlesGet(frameHandles, globalHandle) = PseudoFrame
          /\ globalHandle < frameHandles.next
    /\ VRequested("stackTrace") =>
          globalHandle = frameHandles.next - vlog[1].reference - 1
    /\ \A e \in GlobalEntries : e.frameId = -1 /\ e.threadId = -1 /\ e.depth = Number(-1)
    /\ \A e1, e2 \in GlobalEntries : e1.expression = e2.expression => e1 = e2
    /\ (vreq.kind = "global" /\ vreq.pc = "varCreate") =>
          \A e \in variableMap : e.expression /= vreq.name
    /\ (vreq.kind = "global" /\ vreq.pc \in {"varCreate", "varUpdate"}) =>
          vreq.frame = PseudoFrame
    /\ \A e \in StaticEntries :
          \E h \in DOMAIN frameHandles.map :
             /\ frameHandles.map[h].threadId = e.threadId
             /\ frameHandles.map[h].frameId = e.frameId
    /\ (vreq.kind = "static" /\ vreq.pc /= "idle") =>
          /\ vreq.frame = HandlesGet(frameHandles, vreq.servedFrame)
          /\ vreq.servedFrame = vlog[1].reference - STATIC_HANDLES_START

\* The global count was created under the pseudo frame of the first
\* stack-trace request and is updated under that of the second.
C28_Witness ==
    /\ globalHandle = START_HANDLE + 1
    /\ HandlesGet(frameHandles, START_HANDLE) = PseudoFrame
    /\ VRequested("variables")
    /\ vreq.pc = "varUpdate" /\ vreq.kind = "global"
    /\ vlog[2] = CmdVarUpdate(GlobalName("count"))
    /\ Cardinality(GlobalEntries) = 2

\* A static is cached under the innermost frame of thread 1.
C28_WitnessStatic ==
    /\ \E e \in StaticEntries : e.threadId = 1 /\ e.frameId = 0 /\ e.depth = Number(1)
    /\ GlobalEntries /= {}

\* ------------------------------------------------------------ batch delete
\* C29: a reconciliation issues at most one batch delete; it carries the
\* numbers of all listed rows marked for deletion, each once, and at least
\* one; it is issued when no desired entry is left to create, after every
\* create-breakpoint command and before the response; and a reconciliation
\* that has answered with nothing marked has issued none.
C29_OneBatchDelete ==
    /\ Cardinality(Issued("break-delete")) <= 1
    /\ \A d \in Issued("break-delete") :
          /\ \A i \in Issued("break-insert") : i < d
          /\ \A r \in Responses("success") \cup Responses("error") : d < r
          /\ inserts = <<>>
          /\ log[d].ids /= <<>>
          /\ {log[d].ids[k] : k \in 1..Len(log[d].ids)} = StaleIds
          /\ Len(log[d].ids) = Cardinality(StaleIds)
    /\ pc = "insert" => Issued("break-delete") = {}
    /\ Responses("success") /= {} =>
          (StaleIds = {} <=> Issued("break-delete") = {})

\* One entry was created and then the two stale rows were deleted in one
\* batch, before the response.
C29_Witness ==
    /\ Done
    /\ Len(log) = 4
    /\ log[2].name = "break-insert"
    /\ log[3].name = "break-delete" /\ Len(log[3].ids) = 2
    /\ log[4].name = "success"

\* Two entries were created and nothing was marked: no batch delete.
C29_WitnessNone ==
    /\ Done
    /\ Len(Creates) = 2
    /\ StaleIds = {}
    /\ BatchDeletes = <<>>
    /\ result /= <<>>

\* ------------------------------------------------------------ aborted reconciliations
\* The command whose failure the request saw.
FailedCommand == log[(CHOOSE f \in Failures : TRUE) - 1]

\* The create-breakpoint commands of the request that succeeded.
Created ==
    Len(Creates) - (IF Failures /= {} /\ FailedCommand.name = "break-insert"
                    THEN 1 ELSE 0)

\* C30: when break-list, a create-breakpoint command or the batch delete of
\* a reconciliation fails, the request issues no further create and no
\* delete (only the owed resume), answers with exactly one error response
\* and no success response, and the backend keeps the breakpoints created
\* before the failure and every row it had.
C30_FailureAborts ==
    Failures /= {} =>
        LET f == CHOOSE i \in Failures : TRUE
        IN  /\ pc = "idle"
            /\ Failures = {f}
            /\ log[f - 1].t = "cmd"
            /\ log[f - 1].name \in {"break-list", "break-insert", "break-delete"}
            /\ \A i \in (f + 1)..Len(log) : log[i].t = "cmd" => log[i] = CmdContinue
            /\ Responses("error") = {f + 1}
            /\ Responses("success") = {}
            /\ log[f - 1].name = "break-list" =>
                  Issued("break-insert") = {} /\ Issued("break-delete") = {}
            /\ log[f - 1].name = "break-insert" => Issued("break-delete") = {}
            /\ log[f - 1].name /= "break-list" =>
                  /\ Len(installed) = Len(result) + Created
                  /\ \A i \in 1..Len(result) : installed[i] = result[i]
                  /\ \A j \in 1..Created :
                        /\ installed[Len(result) + j].fullname = args.file
                        /\ installed[Len(result) + j].line = Creates[j].line
                        /\ \E k \in 1..Len(actual) :
                              actual[k].id = installed[Len(result) + j].number

\* The first entry was created, the create of the second failed with a
\* stale row still to delete: one error response, no delete, and the
\* backend holds the old row and the new one.
C30_Witness ==
    /\ Failures = {4}
    /\ Len(log) = 5
    /\ log[2].name = "break-insert" /\ log[3].name = "break-insert"
    /\ log[5] = ResponseError
    /\ StaleIds /= {}
    /\ inserts /= <<>>
    /\ Len(installed) = Len(result) + 1

\* The batch delete failed on an interrupted target: the rows stay and the
\* resume follows the error response.
C30_WitnessDelete ==
    /\ Failures /= {}
    /\ FailedCommand.name = "break-delete"
    /\ Created = 1
    /\ log[Len(log)] = CmdContinue
    /\ log[Len(log) - 1] = ResponseError

\* break-list failed.
C30_WitnessList ==
    /\ Failures /= {}
    /\ FailedCommand.name = "break-list"
    /\ args.breakpoints /= <<>>
    /\ installed /= <<>>

\* ------------------------------------------------------------ log point registration
\* The installed row of the file with this number realizes the desired
\* entry: it has its line and its condition.
Realizes(number, vsbp) ==
    \E i \in RowsOf(installed, args.file) :
       /\ installed[i].number = number
       /\ installed[i].line = vsbp.line
       /\ SameCondition(installed[i].cond, vsbp.condition)

\* C31: after a successful reconciliation of desired entries that differ in
\* line or condition, every desired entry with a log message has an entry in the log point table under the number of a
\* breakpoint that realizes it, holding its own message, and every entry of
\* the table is the message of a desired entry that the breakpoint of that
\* number realizes; so an entry without a message has none, also when
\* another entry on its line has one.
C31_LogPointTable ==
    (Done /\ Responses("success") /= {} /\ DistinctDesired) =>
        /\ \A j \in 1..Len(args.breakpoints) :
              Truthy(args.breakpoints[j].logMessage) =>
                 \E e \in logPointMessages :
                    /\ e.msg = args.breakpoints[j].logMessage
                    /\ Realizes(e.id, args.breakpoints[j])
        /\ \A e \in logPointMessages :
              \E j \in 1..Len(args.breakpoints) :
                 /\ Truthy(args.breakpoints[j].logMessage)
                 /\ e.msg = args.breakpoints[j].logMessage
                 /\ Realizes(e.id, args.breakpoints[j])

\* ------------------------------------------------------------ progress of a request
\* C32: with replies and notifications delivered, a set-breakpoints request
\* that has started comes to its end with exactly one response, also when
\* it interrupted a running target.
C32_EventuallyResponds ==
    (pc /= "idle") ~>
        (pc = "idle" /\
         Cardinality(Responses("success") \cup Responses("error")) = 1)

\* ------------------------------------------------------------ two waits for one stop
\* C33: when a teardown starts while a set-breakpoints request waits for
\* the target to stop, both waits are released and both run to their end.
C33_BothReleased ==
    (pc = "waitPaused" /\ tpc = "waitPaused") ~> (pc = "idle" /\ tpc = "done")

\* ------------------------------------------------------------ start future
\* C34: with a timer that expires, the future spawn() returned is settled
\* in the end, whatever the process does (it exits before a readiness line
\* with any code, the arguments or the spawn throw), and it is settled
\* once: never resolved and rejected both.
C34_StartSettles ==
    /\ (future.state = "pending") ~> (future.state \in {"resolved", "rejected"})
    /\ [](future.settled <= 1)
    /\ [][future.state \in {"resolved", "rejected"} => future' = future]_vars

\* The process exited with code 1 before any readiness line, and the timer
\* rejected the future afterwards.
C34_Witness ==
    /\ process = "exited"
    /\ future.state = "rejected"
    /\ future.error = "timeout"
    /\ future.settled = 1
    /\ outBuffer = <<>> /\ errBuffer = <<>>

\* The spawn threw and the future was rejected at once.
C34_WitnessThrown ==
    /\ process = "none"
    /\ future.state = "rejected"
    /\ future.error = "spawn"
    /\ timer = "none"

\* ------------------------------------------------------------ start-up order
\* The steps of runSession from the start of the debugger client to the
\* InitializedEvent, in the order of lines 402-427.
StartupOrder ==
    <<Sent("spawn", "gdb", "", 0),
      LaunchCommand("sendTargetAsyncOn"),
      LaunchCommand("sendTargetSelectRemote"),
      LaunchCommand("sendMonitorResetHalt"),
      progressEvent(0, "Loading Image"),
      LaunchCommand("sendTargetDownload"),
      progressEvent(100, "Loading Image"),
      LaunchCommand("sendMonitorResetHalt"),
      LaunchCommand("sendEnablePrettyPrint"),
      InitializedEvent>>

\* The steps of StartupOrder the launch has taken, in the order it took them.
StartupTaken ==
    SelectSeq(llog, LAMBDA x : \E k \in 1..Len(StartupOrder) : StartupOrder[k] = x)

\* The error responses of the launch.
StartupErrors == {i \in 1..Len(llog) : llog[i].t = "response" /\ llog[i].code = 1}

\* C35: the steps the launch has taken are a prefix of the start-up order,
\* so the InitializedEvent is sent at most once and after the debugger
\* client was spawned, target-select and the first reset-halt were answered,
\* the download was framed by progress 0 and progress 100 and answered, and
\* the second reset-halt was answered; the client is spawned only when the
\* start future of the server is resolved; and a failure ends the launch
\* by an error response after which nothing is sent and no
\* InitializedEvent was sent.
C35_StartupOrder ==
    /\ IsPrefix(StartupTaken, StartupOrder)
    /\ Cardinality(Initialized) <= 1
    /\ StartupTaken /= <<>> => future.state = "resolved"
    /\ \A i \in StartupErrors :
          /\ i = Len(llog)
          /\ lpc = "done"
          /\ Initialized = {}
    /\ \A i \in Initialized :
          /\ lpc \in {"returned", "done"}
          /\ lpc = "done" => llog[Len(llog)] = LaunchResponse(llog[1].name)
          /\ StartupTaken = StartupOrder

\* A launch with runToMain went through every step and sent the
\* InitializedEvent.
C35_Witness ==
    /\ lpc = "done"
    /\ Initialized /= {}
    /\ llog[1] = LaunchArguments("launch", TRUE)
    /\ \E i \in 1..Len(llog) : llog[i] = LaunchCommand("sendBreakOnFunction")

\* The download failed: progress 0 was sent, progress 100 and the second
\* reset-halt were not.
C35_WitnessFailed ==
    /\ lpc = "done"
    /\ StartupErrors /= {}
    /\ Len(StartupTaken) = 6

\* ------------------------------------------------------------ matched entries
\* The listed rows of the file that a desired entry matches by line and
\* condition.
MatchedRows(vsbp) ==
    {i \in RowsOf(result, args.file) :
        /\ result[i].line = vsbp.line
        /\ SameCondition(result[i].cond, vsbp.condition)}

\* The desired entries with a hit condition that no listed row matches.
UnmatchedWithHit ==
    {j \in 1..Len(args.breakpoints) :
        args.breakpoints[j].hasHit /\ MatchedRows(args.breakpoints[j]) = {}}

\* C36: a desired entry that a listed row of the file matches by line and
\* condition causes no command and no output, whatever its hit condition
\* is: no create for its line and condition, no diagnostic (each
\* diagnostic is that of an entry no row matches), no delete of the row, and the row stays in the table as it was, with its
\* temporary flag and its ignore count.
C36_MatchKept ==
    /\ Cardinality(Diagnostics) <= Cardinality(UnmatchedWithHit)
    /\ \A d \in Diagnostics :
          \E j \in UnmatchedWithHit : log[d].hit = args.breakpoints[j].hitCondition
    /\ \A j \in 1..Len(args.breakpoints) :
       LET e == args.breakpoints[j]
       IN  MatchedRows(e) /= {} =>
              /\ \A c \in Issued("break-insert") :
                    ~(log[c].line = e.line /\ SameCondition(log[c].condition, e.condition))
              /\ \A i \in MatchedRows(e) :
                    /\ \A d \in Issued("break-delete") :
                          \A k \in 1..Len(log[d].ids) : log[d].ids[k] /= result[i].number
                    /\ \E k \in 1..Len(installed) : installed[k] = result[i]

\* Line 10 is installed as a plain breakpoint and desired with the hit
\* condition ">3", line 20 is desired with "abc": the request ends with the
\* diagnostic of line 20 alone and the row of line 10 as it was.
C36_Witness ==
    /\ Done
    /\ Len(args.breakpoints) = 2
    /\ args.breakpoints[1].line = 10 /\ args.breakpoints[1].hitCondition = <<">", "3">>
    /\ args.breakpoints[2].hitCondition = <<"a", "b", "c">>
    /\ MatchedRows(args.breakpoints[1]) /= {}
    /\ MatchedRows(args.breakpoints[2]) = {}
    /\ Cardinality(Diagnostics) = 1
    /\ Issued("break-insert") = {}
    /\ installed = result

\* A matched entry with an unparsable hit condition: neither a command nor
\* a diagnostic.
C36_WitnessUnparsable ==
    /\ Done
    /\ Len(args.breakpoints) = 1
    /\ args.breakpoints[1].hitCondition = <<"a", "b", "c">>
    /\ MatchedRows(args.breakpoints[1]) /= {}
    /\ log = <<CmdBreakList, ResponseOk(actual)>>
    /\ Len(actual) = 1

\* The teardown had killed the server before entry i was written.
TornDown(i) == \E j \in 1..(i - 1) : tlog[j].t = "kill"

\* C37: a disconnect request sends exactly one response and a
\* TerminatedEvent exactly when no restart was asked for, and both are sent
\* only after the teardown has finished, that is after the server was
\* killed.
C37_DisconnectAfterTeardown ==
    LET requests == {i \in 1..Len(tlog) : tlog[i].t = "request"}
        events == {i \in 1..Len(tlog) : tlog[i].t = "event"}
        responses == {i \in 1..Len(tlog) : tlog[i].t = "response"}
    IN  \A r \in requests :
           /\ Cardinality(responses) = 1
           /\ (events /= {}) <=> ~tlog[r].restart
           /\ Cardinality(events) <= 1
           /\ \A i \in events \cup responses : TornDown(i)

\* The parts of C37 that hold: one response, and the event exactly without
\* restart.
C37_OneResponse ==
    LET requests == {i \in 1..Len(tlog) : tlog[i].t = "request"}
        events == {i \in 1..Len(tlog) : tlog[i].t = "event"}
        responses == {i \in 1..Len(tlog) : tlog[i].t = "response"}
    IN  \A r \in requests :
           /\ Cardinality(responses) = 1
           /\ (events /= {}) <=> ~tlog[r].restart
           /\ Cardinality(events) <= 1

\* The response of a disconnect request is never sent after the teardown
\* has finished.
C37_SentBefore ==
    \A i \in 1..Len(tlog) : tlog[i].t \in {"event", "response"} => ~TornDown(i)

====
